---- MODULE Spec2Model ----
(***************************************************************************)
(* A model of cc-switch's local failover proxy (src-tauri/src/proxy.rs):   *)
(* the request handler proxy_handler with its provider snapshot, retry     *)
(* loop and header rewriting, and the start/stop lifecycle of the proxy    *)
(* server singleton.                                                       *)
(*                                                                         *)
(* Text (Rust String / &str) is a sequence of tokens; a token stands for   *)
(* a run of characters that the code never looks inside.  Option<T> is a   *)
(* record [some |-> FALSE] or [some |-> TRUE, v |-> x].  A serde_json      *)
(* Value is a record tagged by its JSON type.                              *)
(***************************************************************************)
EXTENDS Integers, Sequences, FiniteSets, TLC

\* ---------------------------------------------------------------- bounds
MaxProviders == 2      \* providers in one client kind's registry
MaxRetry == 1          \* largest settings.proxy_retry_count explored
MaxSortLen == 3        \* longest list handed to the comparator sort
MaxCalls == 2          \* calls of start/stop made by one caller
MaxSwitches == 2       \* mode switches made in one run
MaxFields == 2         \* keys of an object handed to the validator
MaxArrayLen == 2       \* elements of an array handed to the validator
MaxCharBytes == 3      \* bytes of the widest character of a response body
MaxPad == 1            \* characters before and after the core of a User-Agent
MaxSegments == 2       \* pieces a config.toml text is put together from
MaxMutations == 1      \* registry mutations made while one request is handled

\* ------------------------------------------------------- Option and JSON
None == [some |-> FALSE]
Some(x) == [some |-> TRUE, v |-> x]

JString(s) == [t |-> "string", s |-> s]
JObject(f) == [t |-> "object", f |-> f]
JNull == [t |-> "null"]
JBool(b) == [t |-> "boolean", b |-> b]
JNumber(n) == [t |-> "number", n |-> n]
JArray(a) == [t |-> "array", a |-> a]

\* serde_json::Value::get(key): Some only on an object holding the key
JGet(val, key) ==
  IF val.t = "object" /\ key \in DOMAIN val.f THEN Some(val.f[key]) ELSE None

\* Option<&Value>.and_then(|v| v.as_object())
AsObject(opt) == IF opt.some /\ opt.v.t = "object" THEN opt ELSE None

\* Option<&Value>.and_then(|v| v.as_str())
AsStr(opt) == IF opt.some /\ opt.v.t = "string" THEN Some(opt.v.s) ELSE None

\* Result<T, String>
Ok(x) == [ok |-> TRUE, v |-> x]
Err(e) == [ok |-> FALSE, e |-> e]

\* ------------------------------------------------------------------ text
QUOTES == {"\"", "'"}
WHITESPACE == {" ", "\t", "\n"}

RECURSIVE SkipSpace(_, _)
\* the position after the longest run of whitespace starting at i (regex \s*)
SkipSpace(text, i) ==
  IF i <= Len(text) /\ text[i] \in WHITESPACE THEN SkipSpace(text, i + 1) ELSE i

RECURSIVE SkipUnquoted(_, _)
\* the position after the longest run of non-quote tokens starting at i
SkipUnquoted(text, i) ==
  IF i <= Len(text) /\ text[i] \notin QUOTES THEN SkipUnquoted(text, i + 1) ELSE i

\* the regex base_url\s*=\s*["']([^"']+)["'] anchored at position i:
\* the capture group, or None when the pattern does not match there
MatchBaseUrlAt(text, i) ==
  IF text[i] # "base_url" THEN None
  ELSE LET e == SkipSpace(text, i + 1) IN
    IF ~(e <= Len(text) /\ text[e] = "=") THEN None
    ELSE LET q == SkipSpace(text, e + 1) IN
      IF ~(q <= Len(text) /\ text[q] \in QUOTES) THEN None
      ELSE LET c == SkipUnquoted(text, q + 1) IN
        IF c > q + 1 /\ c <= Len(text)
        THEN Some(SubSeq(text, q + 1, c - 1))
        ELSE None

\* a search that returns the rightmost match at or after position i
CapturesFrom_last(text, i) ==
  LET matches == {j \in i..Len(text) : MatchBaseUrlAt(text, j).some} IN
  IF matches = {} THEN None
  ELSE MatchBaseUrlAt(text, CHOOSE j \in matches : \A k \in matches : k <= j)

RECURSIVE CapturesFrom(_, _)
\* Regex::captures: the leftmost match at or after position i
CapturesFrom(text, i) ==
  IF i > Len(text) THEN None
  ELSE IF MatchBaseUrlAt(text, i).some THEN MatchBaseUrlAt(text, i)
  ELSE CapturesFrom(text, i + 1)

Contains(text, tok) == \E i \in 1..Len(text) : text[i] = tok

RECURSIVE TrimEndSlash(_)
\* str::trim_end_matches('/')
TrimEndSlash(s) ==
  IF Len(s) > 0 /\ s[Len(s)] = "/" THEN TrimEndSlash(SubSeq(s, 1, Len(s) - 1)) ELSE s

\* --------------------------------------------------- credential extractor
ExtractClaude(settings_config) ==
  LET env == AsObject(JGet(settings_config, "env")) IN
  IF ~env.some THEN Err("missing env")
  ELSE LET api_key == AsStr(JGet(env.v, "ANTHROPIC_AUTH_TOKEN")) IN
    IF ~api_key.some THEN Err("missing ANTHROPIC_AUTH_TOKEN")
    ELSE LET base_url == AsStr(JGet(env.v, "ANTHROPIC_BASE_URL")) IN
      IF ~base_url.some THEN Err("missing ANTHROPIC_BASE_URL")
      ELSE Ok([api_key |-> api_key.v, base_url |-> base_url.v])

ExtractCodex(settings_config) ==
  LET auth == AsObject(JGet(settings_config, "auth")) IN
  IF ~auth.some THEN Err("missing auth")
  ELSE LET api_key == AsStr(JGet(auth.v, "OPENAI_API_KEY")) IN
    IF ~api_key.some THEN Err("missing OPENAI_API_KEY")
    ELSE LET cfg == AsStr(JGet(settings_config, "config"))
             config_toml == IF cfg.some THEN cfg.v ELSE <<>>
         IN IF ~Contains(config_toml, "base_url") THEN Err("config.toml lacks base_url")
            ELSE LET caps == CapturesFrom(config_toml, 1) IN
              IF ~caps.some THEN Err("config.toml base_url malformed")
              ELSE Ok([api_key |-> api_key.v, base_url |-> caps.v])

extract_provider_credentials(provider, app_type) ==
  IF app_type = "Claude" THEN ExtractClaude(provider.settings_config)
  ELSE ExtractCodex(provider.settings_config)

\* ------------------------------------------------------- provider ordering
\* a comparator that orders sortIndex descending
CompareProviders_descending(a, b) ==
  IF a.sort_index.some /\ b.sort_index.some THEN
    (IF a.sort_index.v > b.sort_index.v THEN "Less"
     ELSE IF a.sort_index.v < b.sort_index.v THEN "Greater" ELSE "Equal")
  ELSE IF a.sort_index.some THEN "Less"
  ELSE IF b.sort_index.some THEN "Greater"
  ELSE "Equal"

\* the closure handed to sort_by: "Less", "Equal" or "Greater"
CompareProviders(a, b) ==
  IF a.sort_index.some /\ b.sort_index.some THEN
    (IF a.sort_index.v < b.sort_index.v THEN "Less"
     ELSE IF a.sort_index.v > b.sort_index.v THEN "Greater" ELSE "Equal")
  ELSE IF a.sort_index.some THEN "Less"
  ELSE IF b.sort_index.some THEN "Greater"
  ELSE IF a.created_at.some /\ b.created_at.some THEN
    (IF a.created_at.v < b.created_at.v THEN "Less"
     ELSE IF a.created_at.v > b.created_at.v THEN "Greater" ELSE "Equal")
  ELSE "Equal"

RECURSIVE InsertTail(_, _)
\* slice::sort_by on a short slice is an insertion sort: the new element
\* moves left past every element it is strictly less than
InsertTail(sorted, x) ==
  IF sorted = <<>> THEN <<x>>
  ELSE IF CompareProviders(x, sorted[Len(sorted)]) = "Less"
       THEN Append(InsertTail(SubSeq(sorted, 1, Len(sorted) - 1), x), sorted[Len(sorted)])
       ELSE Append(sorted, x)

RECURSIVE SortProviders(_)
SortProviders(v) ==
  IF v = <<>> THEN <<>>
  ELSE InsertTail(SortProviders(SubSeq(v, 1, Len(v) - 1)), v[Len(v)])

\* unwrap_or(true): a provider without the flag counts as enabled
ProxyEnabled_default_on(p) == IF p.proxy_enabled.some THEN p.proxy_enabled.v ELSE TRUE

\* p.proxy_enabled.unwrap_or(false)
ProxyEnabled(p) == IF p.proxy_enabled.some THEN p.proxy_enabled.v ELSE FALSE

RECURSIVE FilterEnabled(_)
\* manager.providers.values().filter(..).cloned().collect(); a registry (a
\* HashMap) is written as the sequence of its values in iteration order
FilterEnabled(v) ==
  IF v = <<>> THEN <<>>
  ELSE IF ProxyEnabled(Head(v)) THEN <<Head(v)>> \o FilterEnabled(Tail(v))
       ELSE FilterEnabled(Tail(v))

\* the snapshot taken under the registry mutex; both client kinds have a
\* manager, and the mutex is taken to be unpoisoned
get_enabled_proxy_providers(cfg, app_type) == SortProviders(FilterEnabled(cfg[app_type]))

\* ----------------------------------------------------------------- headers
HOP_BY_HOP_HEADERS ==
  {"connection", "keep-alive", "proxy-authenticate", "proxy-authorization",
   "te", "trailers", "transfer-encoding", "upgrade", "host"}

\* str::to_lowercase on the header names and tokens that occur in the model
UPPER_TO_LOWER ==
  ("Authorization" :> "authorization") @@ ("AUTHORIZATION" :> "authorization") @@
  ("Connection" :> "connection") @@ ("TE" :> "te") @@ ("Host" :> "host") @@
  ("Keep-Alive" :> "keep-alive") @@ ("Transfer-Encoding" :> "transfer-encoding") @@
  ("Upgrade" :> "upgrade") @@ ("Accept" :> "accept") @@
  ("User-Agent" :> "user-agent") @@ ("Content-Type" :> "content-type") @@
  ("Set-Cookie" :> "set-cookie") @@
  ("C" :> "c") @@ ("L" :> "l") @@ ("A" :> "a") @@ ("U" :> "u") @@ ("D" :> "d") @@
  ("E" :> "e") @@ ("X" :> "x")

lowercase(s) == IF s \in DOMAIN UPPER_TO_LOWER THEN UPPER_TO_LOWER[s] ELSE s

\* a deny-list that only knows "connection"
should_forward_header_short(header_name) == lowercase(header_name) # "connection"

should_forward_header(header_name) == lowercase(header_name) \notin HOP_BY_HOP_HEADERS

\* A HeaderMap is a function from (lower-case) names to the values held under
\* the name, in order.  The http crate lower-cases every name it parses.
RECURSIVE ValuesOf(_, _)
ValuesOf(lines, name) ==
  IF lines = <<>> THEN <<>>
  ELSE IF lowercase(Head(lines).name) = name
       THEN <<Head(lines).value>> \o ValuesOf(Tail(lines), name)
       ELSE ValuesOf(Tail(lines), name)

HeaderMap(lines) ==
  [n \in {lowercase(lines[i].name) : i \in 1..Len(lines)} |-> ValuesOf(lines, n)]

\* HeaderMap::insert for every (name, value) of src whose name is in kept:
\* each insert replaces what the name held, so the last value of a name remains
CopyHeaders(src, kept) ==
  [n \in DOMAIN src \cap kept |-> <<src[n][Len(src[n])]>>]

\* HeaderMap::insert(name, value) on an existing map
InsertHeader(map, name, value) ==
  [n \in DOMAIN map \cup {name} |-> IF n = name THEN <<value>> ELSE map[n]]

KeepOutbound(name) == should_forward_header(name) /\ lowercase(name) # "authorization"

\* a copy loop that forwards the caller's headers without the rewrite
OutboundHeaders_passthrough(inbound, api_key) ==
  CopyHeaders(inbound, {n \in DOMAIN inbound : should_forward_header(n)})

\* the headers of new_req after the copy loop and the Authorization rewrite
OutboundHeaders(inbound, api_key) ==
  InsertHeader(CopyHeaders(inbound, {n \in DOMAIN inbound : KeepOutbound(n)}),
               "authorization", <<"Bearer ">> \o api_key)

\* the headers of final_response
RelayedHeaders(headers) ==
  CopyHeaders(headers, {n \in DOMAIN headers : should_forward_header(n)})

\* HeaderValue::from_str rejects control characters; .parse().unwrap() panics
ValidHeaderValue(s) == \A i \in 1..Len(s) : s[i] # "\n"

\* http::Uri parsing, as done by Request::builder().uri(..), rejects a space
UriBuilds(url) == \A i \in 1..Len(url) : url[i] # " "

TargetUrl(base_url, request_path) == TrimEndSlash(base_url) \o request_path

\* ------------------------------------------------------ client-kind detector
\* a User-Agent value is a sequence of characters
SIGNATURE == <<"c", "l", "a", "u", "d", "e">>

\* a lowering that leaves every character as it is
LowerText_identity(text) == text

\* str::to_lowercase
LowerText(text) == [i \in 1..Len(text) |-> lowercase(text[i])]

\* str::contains(&str)
ContainsText(text, pat) ==
  \E i \in 0..(Len(text) - Len(pat)) : SubSeq(text, i + 1, i + Len(pat)) = pat

detect_app_type_from_user_agent(user_agent) ==
  IF user_agent.some /\ ContainsText(LowerText(user_agent.v), SIGNATURE)
  THEN "Claude" ELSE "Codex"

\* parts.headers.get("user-agent"): the first value under the name
UserAgent(headers) ==
  IF "user-agent" \in DOMAIN headers THEN Some(headers["user-agent"][1]) ELSE None

\* ------------------------------------------------ the values explored
KEY_A == <<"sk-a">>
KEY_B == <<"sk-b">>
KEY_CTL == <<"sk-c", "\n">>            \* not a legal header value
URL_A == <<"https://a.example">>
URL_B == <<"https://b.example", "/">>   \* trailing slash
URL_SPACE == <<"https://c", " ", "example">>

ClaudeConfig(api_key, base_url) ==
  JObject([env |-> JObject([ANTHROPIC_AUTH_TOKEN |-> JString(api_key),
                            ANTHROPIC_BASE_URL |-> JString(base_url)])])

CodexConfig(api_key, config_toml) ==
  JObject([auth |-> JObject([OPENAI_API_KEY |-> JString(api_key)]),
           config |-> JString(config_toml)])

TOML_B == <<"model = x", "base_url", " ", "=", " ", "\"", "https://b.example", "/", "\"">>

Provider(id, sort_index, created_at, proxy_enabled, settings_config) ==
  [id |-> id, sort_index |-> sort_index, created_at |-> created_at,
   proxy_enabled |-> proxy_enabled, settings_config |-> settings_config]

\* the providers a Claude registry is drawn from
ClaudePool ==
  { Provider("a", Some(1), None, Some(TRUE), ClaudeConfig(KEY_A, URL_A)),
    Provider("b", Some(2), Some(1), Some(TRUE), ClaudeConfig(KEY_B, URL_B)),
    Provider("c", None, Some(1), Some(TRUE),
             JObject([env |-> JObject([ANTHROPIC_BASE_URL |-> JString(URL_A)])])),
    Provider("d", None, Some(2), None, ClaudeConfig(KEY_A, URL_A)),
    Provider("e", Some(1), Some(2), Some(FALSE), ClaudeConfig(KEY_B, URL_B)),
    Provider("f", Some(1), None, Some(TRUE), ClaudeConfig(KEY_A, URL_SPACE)),
    Provider("g", None, None, Some(TRUE), ClaudeConfig(KEY_CTL, URL_A)),
    Provider("h", Some(3), None, Some(TRUE), CodexConfig(KEY_B, TOML_B)) }

\* the registries of the Codex kind
CodexRegistries ==
  { <<>>,
    << Provider("x", None, Some(1), Some(TRUE), CodexConfig(KEY_B, TOML_B)),
       Provider("y", None, None, Some(TRUE), ClaudeConfig(KEY_A, URL_A)) >>,
    << Provider("y", None, None, Some(TRUE), ClaudeConfig(KEY_A, URL_A)),
       Provider("x", None, Some(1), Some(TRUE), CodexConfig(KEY_B, TOML_B)) >> }

\* the sequences of at most n members of S with pairwise different ids
RECURSIVE Arrangements(_, _)
Arrangements(S, n) ==
  IF n = 0 THEN {<<>>}
  ELSE LET prev == Arrangements(S, n - 1) IN
    prev \cup { q \in { Append(r, p) : r \in prev, p \in S } :
                  \A i \in 1..(Len(q) - 1) : q[i].id # q[Len(q)].id }

Line(name, value) == [name |-> name, value |-> value]

\* inbound requests as they arrive on the wire
Requests ==
  { [path |-> <<"/v1/messages">>,
     lines |-> << Line("User-Agent", <<"c", "l", "a", "u", "d", "e", "-", "c", "l", "i">>),
                  Line("Authorization", <<"Bearer ", "ccswitch-proxymode-token">>),
                  Line("Connection", <<"keep-alive">>),
                  Line("x-app", <<"cli">>) >>],
    [path |-> <<"/v1/messages", "?beta=true">>,
     lines |-> << Line("User-Agent", <<"C", "L", "A", "U", "D", "E">>),
                  Line("AUTHORIZATION", <<"Bearer ", "one">>),
                  Line("authorization", <<"Bearer ", "two">>),
                  Line("TE", <<"trailers">>),
                  Line("Host", <<"127.0.0.1:12857">>),
                  Line("Accept", <<"text/plain">>),
                  Line("accept", <<"application/json">>) >>],
    [path |-> <<"/responses">>,
     lines |-> << Line("User-Agent", <<"C", "o", "d", "e", "x">>),
                  Line("Transfer-Encoding", <<"chunked">>),
                  Line("Content-Type", <<"application/json">>) >>],
    [path |-> <<"/">>,
     lines |-> << Line("authorization", <<"Bearer ", "ccswitch-proxymode-token">>),
                  Line("Upgrade", <<"h2c">>) >>] }

\* the header lines an upstream sends with a response
UpstreamHeaderLines ==
  { << Line("Content-Type", <<"application/json">>) >>,
    << Line("Transfer-Encoding", <<"chunked">>),
       Line("Connection", <<"close">>),
       Line("Keep-Alive", <<"timeout=5">>),
       Line("Set-Cookie", <<"a=1">>),
       Line("set-cookie", <<"b=2">>) >> }

\* the statuses an upstream answers with
Statuses == {200, 500}

\* ------------------------------------------------------------------ state
VARIABLES
  config,      \* the provider registries: client kind -> values of the HashMap
  settings,    \* crate::settings::get_settings()
  request,     \* the inbound request being handled
  pc,          \* where proxy_handler is suspended
  providers,   \* proxy_handler's snapshot of the ordered eligible providers
  idx,         \* position of the provider loop in the snapshot
  retry,       \* the retry loop's counter
  attempts,    \* the outbound requests handed to the HTTP client, in order
  upstream,    \* header lines of the 200 response whose body is being read
  result,      \* what the handler returned to the inbound caller
  sort_in,     \* a provider list about to be sorted
  sort_out,    \* the list as sort_by leaves it
  initialized, \* PROXY_SERVER has been set by init_proxy_server
  server_guard,\* the Option<ProxyServer> inside PROXY_SERVER: the task handle
  tasks,       \* the listener tasks spawned so far, by handle
  lock,        \* the holder of PROXY_SERVER's write lock
  cpc,         \* caller -> where its start/stop call is suspended
  ret,         \* caller -> what its last call returned
  calls,       \* caller -> calls made so far
  seen,        \* caller -> the operation mode its last start call read
  current,     \* client kind -> manager.current, the selected provider's id
  saved,       \* the value of current in the registry file app_state.save() wrote
  live,        \* the live config files of the two clients, by file
  common,      \* the common configs handed to the last switch_to_proxy_mode
  last,        \* the last mode switch: what it returned, the switch before it,
               \* and the value of current it started from
  nswitch,     \* mode switches made so far
  usage_in,    \* the value handed to validate_result
  usage_out,   \* what validate_result returned for it
  script,      \* the usage script handed to execute_usage_script
  upc,         \* where execute_usage_script is
  replaced,    \* the script code after the substitution of the placeholders
  runtimes,    \* the JS runtimes created so far, by creation order
  stages,      \* the stages of the invocation run so far, in order
  response,    \* the HTTP response received, if any
  carried,     \* request_json, request, response_data, result: the value
               \* the last stage handed to the next
  uret,        \* what execute_usage_script returned
  ua_in,       \* the User-Agent value handed to the detector
  kind_out,    \* the client kind the detector returned for it
  cred_in,     \* the provider and client kind handed to the extractor
  cred_out,    \* what extract_provider_credentials returned for them
  mutex,       \* the holder of app_state.config's lock
  nmut         \* registry mutations made so far

routerVars == <<config, settings, request, pc, providers, idx, retry, attempts,
                upstream, result>>

sortVars == <<sort_in, sort_out>>

serverVars == <<initialized, server_guard, tasks, lock, cpc, ret, calls, seen>>

switchVars == <<current, saved, live, common, last, nswitch>>

validateVars == <<usage_in, usage_out>>

scriptVars == <<script, upc, replaced, runtimes, stages, response, carried, uret>>

detectVars == <<ua_in, kind_out>>

extractVars == <<cred_in, cred_out>>

lockVars == <<mutex, nmut>>

toolVars == <<switchVars, validateVars, scriptVars, detectVars, extractVars, lockVars>>

vars == <<routerVars, sortVars, serverVars, toolVars>>

EmptyHeaders == [n \in {} |-> <<>>]

\* the headers of the inbound request as the handler sees them (parts.headers)
InboundHeaders == HeaderMap(request.lines)

app_type == detect_app_type_from_user_agent(UserAgent(InboundHeaders))

\* a handler that relays whatever the upstream answers
IsSuccess_any(status) == status \in {200, 500}

\* only a 200 counts as success
IsSuccess(status) == status = 200

\* an exclusive range, 0..retry_count
InRetryRange_exclusive(r, retry_count) == r < retry_count

\* a range one too long
InRetryRange_extra(r, retry_count) == r <= retry_count + 1

\* the range of `for retry in 0..=retry_count`
InRetryRange(r, retry_count) == r <= retry_count

\* a backoff after every failed attempt
SleepsAfter_always(r, retry_count) == TRUE

\* `if retry < retry_count` guarding the backoff sleep
SleepsAfter(r, retry_count) == r < retry_count

\* a provider loop that ends at the first provider it cannot send to
NextIndex_stop(provs, i, kind, path) ==
  IF i > Len(provs) THEN i
  ELSE LET creds == extract_provider_credentials(provs[i], kind) IN
    IF creds.ok /\ UriBuilds(TargetUrl(creds.v.base_url, path)) THEN i
    ELSE Len(provs) + 1

RECURSIVE NextIndex(_, _, _, _)
\* the provider loop from position i up to the first provider that reaches
\* client.request: a provider whose credentials do not extract is skipped
\* (continue) and so is one whose target URL does not build (break)
NextIndex(provs, i, kind, path) ==
  IF i > Len(provs) THEN i
  ELSE LET creds == extract_provider_credentials(provs[i], kind) IN
    IF ~creds.ok THEN NextIndex(provs, i + 1, kind, path)
    ELSE IF ~UriBuilds(TargetUrl(creds.v.base_url, path))
         THEN NextIndex(provs, i + 1, kind, path)
         ELSE i

\* Err(status) returned to the caller
Fail(status) == Some([status |-> status, headers |-> EmptyHeaders, from |-> "-"])

\* one pass of the retry loop for provider i up to client.request(..).await
Send(provs, i, r, log) ==
  LET creds == extract_provider_credentials(provs[i], app_type).v
      bearer == <<"Bearer ">> \o creds.api_key
  IN /\ idx' = i
     /\ retry' = r
     /\ result' = result
     /\ IF ~ValidHeaderValue(bearer)
        THEN pc' = "panicked" /\ attempts' = log
        ELSE /\ pc' = "await"
             /\ attempts' = Append(log,
                  [provider |-> provs[i].id,
                   url |-> TargetUrl(creds.base_url, request.path),
                   headers |-> OutboundHeaders(InboundHeaders, creds.api_key),
                   outcome |-> "pending", status |-> 0])

\* the provider loop resumed at position i; the retry loop of the provider
\* found starts with counter 0, which every range 0..=retry_count contains
Proceed(provs, i, log) ==
  LET j == NextIndex(provs, i, app_type, request.path) IN
  IF j > Len(provs)
  THEN /\ pc' = "done"
       /\ result' = Fail(500)
       /\ idx' = j /\ retry' = 0 /\ attempts' = log
  ELSE Send(provs, j, 0, log)

\* get_enabled_proxy_providers returns the snapshot and the handler runs up
\* to the first outbound call
TakeSnapshot ==
  /\ LET provs == get_enabled_proxy_providers(config, app_type) IN
       /\ providers' = provs
       /\ IF provs = <<>>
          THEN /\ pc' = "done"
               /\ result' = Fail(503)
               /\ UNCHANGED <<idx, retry, attempts>>
          ELSE Proceed(provs, 1, attempts)
  /\ UNCHANGED <<config, settings, request, upstream>>

\* the inbound body arrives; the handler reads the settings, takes its
\* snapshot and runs up to the first outbound call
ReadBody ==
  /\ pc = "recv"
  /\ TakeSnapshot
  /\ UNCHANGED <<sortVars, serverVars, toolVars>>

\* body.collect() fails
ReadBodyFails ==
  /\ pc = "recv"
  /\ pc' = "done"
  /\ result' = Fail(400)
  /\ UNCHANGED <<config, settings, request, providers, idx, retry, attempts, upstream>>
  /\ UNCHANGED <<sortVars, serverVars, toolVars>>

Settle(log, outcome, status) ==
  [log EXCEPT ![Len(log)].outcome = outcome, ![Len(log)].status = status]

\* the head of the retry loop for counter value r: another pass for the same
\* provider, or the end of the loop and the next provider
RetryLoop(r, log) ==
  IF InRetryRange(r, settings.proxy_retry_count)
  THEN Send(providers, idx, r, log)
  ELSE Proceed(providers, idx + 1, log)

\* the tail of a pass whose attempt failed: sleep before the next pass if
\* there is one, otherwise straight back to the head of the loop
AfterFailure(log) ==
  IF SleepsAfter(retry, settings.proxy_retry_count)
  THEN pc' = "sleep" /\ attempts' = log /\ UNCHANGED <<idx, retry, result>>
  ELSE RetryLoop(retry + 1, log)

\* client.request(..) returns Ok(response)
Respond ==
  /\ pc = "await"
  /\ \E status \in Statuses, lines \in UpstreamHeaderLines :
       IF IsSuccess(status)
       THEN /\ pc' = "body"
            /\ upstream' = Some(lines)
            /\ attempts' = Settle(attempts, "response", status)
            /\ UNCHANGED <<idx, retry, result>>
       ELSE /\ AfterFailure(Settle(attempts, "response", status))
            /\ UNCHANGED upstream
  /\ UNCHANGED <<config, settings, request, providers>>
  /\ UNCHANGED <<sortVars, serverVars, toolVars>>

\* client.request(..) returns Err
TransportError ==
  /\ pc = "await"
  /\ AfterFailure(Settle(attempts, "error", 0))
  /\ UNCHANGED <<config, settings, request, providers, upstream>>
  /\ UNCHANGED <<sortVars, serverVars, toolVars>>

\* the 100 ms backoff elapses
Wake ==
  /\ pc = "sleep"
  /\ RetryLoop(retry + 1, attempts)
  /\ UNCHANGED <<config, settings, request, providers, upstream>>
  /\ UNCHANGED <<sortVars, serverVars, toolVars>>

\* the upstream body arrives and the response is returned to the caller
Relay ==
  /\ pc = "body"
  /\ pc' = "done"
  /\ result' = Some([status |-> attempts[Len(attempts)].status,
                     headers |-> RelayedHeaders(HeaderMap(upstream.v)),
                     from |-> attempts[Len(attempts)].provider])
  /\ UNCHANGED <<config, settings, request, providers, idx, retry, attempts, upstream>>
  /\ UNCHANGED <<sortVars, serverVars, toolVars>>

\* incoming_body.collect() fails
UpstreamBodyFails ==
  /\ pc = "body"
  /\ pc' = "done"
  /\ result' = Fail(502)
  /\ UNCHANGED <<config, settings, request, providers, idx, retry, attempts, upstream>>
  /\ UNCHANGED <<sortVars, serverVars, toolVars>>

Registries == Arrangements(ClaudePool, MaxProviders)

Callers == {"c1", "c2"}

\* the sorting and the server parts at rest
SortIdle == sort_in = <<>> /\ sort_out = None

ServerIdle ==
  /\ initialized = FALSE
  /\ server_guard = None
  /\ tasks = <<>>
  /\ lock = "free"
  /\ cpc = [c \in Callers |-> "idle"]
  /\ ret = [c \in Callers |-> "-"]
  /\ calls = [c \in Callers |-> 0]
  /\ seen = [c \in Callers |-> "-"]

\* the live config files before any switch: content of an earlier session
StaleFiles ==
  [claude_settings |-> JObject([stale |-> JString(<<"settings">>)]),
   codex_auth |-> JObject([stale |-> JString(<<"auth">>)]),
   codex_config |-> Some(<<"stale">>)]

\* no mode switch made
SwitchIdle ==
  /\ current = [Claude |-> "", Codex |-> ""]
  /\ saved = current
  /\ live = StaleFiles
  /\ common = [Claude |-> None, Codex |-> None]
  /\ last = [op |-> "-", ret |-> "-", why |-> "-", prev |-> <<"-", "-">>,
             was |-> current]
  /\ nswitch = 0

\* no value validated
ValidateIdle == usage_in = JNull /\ usage_out = None

\* no usage script running
ScriptIdle ==
  /\ script = None
  /\ upc = "idle"
  /\ replaced = <<>>
  /\ runtimes = <<>>
  /\ stages = <<>>
  /\ response = None
  /\ carried = None
  /\ uret = None

\* no value detected
DetectIdle == ua_in = None /\ kind_out = None

\* no credentials extracted
ExtractIdle == cred_in = None /\ cred_out = None

\* the registry lock free and the registry as it was loaded
LockIdle == mutex = "free" /\ nmut = 0

ToolsIdle ==
  SwitchIdle /\ ValidateIdle /\ ScriptIdle /\ DetectIdle /\ ExtractIdle /\ LockIdle

\* no request in the handler
HandlerIdle ==
  /\ request = [path |-> <<"/">>, lines |-> <<>>]
  /\ pc = "idle"
  /\ providers = <<>>
  /\ idx = 0
  /\ retry = 0
  /\ attempts = <<>>
  /\ upstream = None
  /\ result = None

\* the registries a request finds: the handler reads the registry of the
\* request's kind only, so every Claude registry is explored beside one Codex
\* registry, and every Codex registry beside one Claude registry
RouterConfigs ==
  { [Claude |-> r, Codex |-> c] :
      r \in Registries, c \in {q \in CodexRegistries : Len(q) = 2 /\ q[1].id = "y"} } \cup
  { [Claude |-> r, Codex |-> c] :
      r \in {q \in Registries : Len(q) = 1 /\ q[1].id = "a"}, c \in CodexRegistries }

RouterIdle == config = [Claude |-> <<>>, Codex |-> <<>>] /\ HandlerIdle

Init ==
  /\ config \in RouterConfigs
  /\ settings \in [proxy_retry_count : 0..MaxRetry, operation_mode : {"Proxy"}]
  /\ request \in Requests
  /\ pc = "recv"
  /\ providers = <<>>
  /\ idx = 0
  /\ retry = 0
  /\ attempts = <<>>
  /\ upstream = None
  /\ result = None
  /\ SortIdle
  /\ ServerIdle
  /\ ToolsIdle

Next ==
  \/ ReadBody
  \/ ReadBodyFails
  \/ Respond
  \/ TransportError
  \/ Wake
  \/ Relay
  \/ UpstreamBodyFails

Spec == Init /\ [][Next]_vars

\* ------------------------------------------------- the ordering on its own
SortIds == <<"p1", "p2", "p3", "p4", "p5">>

SortKeys == {None, Some(1), Some(2)}

\* the lists of n providers, provider i named SortIds[i], over all keys
SortInputs(n) ==
  { [i \in 1..n |-> Provider(SortIds[i], k[i][1], k[i][2], Some(TRUE), JNull)] :
      k \in [1..n -> SortKeys \X SortKeys] }

InitSort ==
  /\ \E n \in 0..MaxSortLen : sort_in \in SortInputs(n)
  /\ sort_out = None
  /\ settings = [proxy_retry_count |-> 0, operation_mode |-> "Proxy"]
  /\ RouterIdle
  /\ ServerIdle
  /\ ToolsIdle

\* providers.sort_by(..) on the collected list
SortCall ==
  /\ sort_out = None
  /\ sort_out' = Some(SortProviders(sort_in))
  /\ UNCHANGED <<sort_in, routerVars, serverVars, toolVars>>

NextSort == SortCall

SpecSort == InitSort /\ [][NextSort]_vars

\* ------------------------------------------------ the server's lifecycle
\* a lock that admits every caller at once
CanWrite_shared(c) == TRUE

\* RwLock::write().await completes for caller c
CanWrite(c) == lock = "free"

\* the listener of task h is still bound: the task runs, or its abort has
\* been requested and the runtime has not dropped it yet
HoldsPort(h) == tasks[h] \in {"running", "aborted"}

PortFree == \A h \in 1..Len(tasks) : ~HoldsPort(h)

\* a start that does not look at the stored handle
AlreadyRunning_unchecked == FALSE

\* server_guard.is_some()
AlreadyRunning == server_guard.some

\* a start that takes every mode for the proxy mode
ModeIsProxy_always(s) == TRUE

\* settings.operation_mode == OperationMode::Proxy
ModeIsProxy(s) == s.operation_mode = "Proxy"

Return(c, value) ==
  /\ cpc' = [cpc EXCEPT ![c] = "idle"]
  /\ ret' = [ret EXCEPT ![c] = value]

\* init_proxy_server: get_or_init
InitProxyServer ==
  /\ ~initialized
  /\ initialized' = TRUE
  /\ UNCHANGED <<server_guard, tasks, lock, cpc, ret, calls, settings, seen>>
  /\ UNCHANGED <<sortVars, toolVars, config, request, pc, providers, idx, retry, attempts, upstream, result>>

\* the user changes the operation mode in the settings
SetMode ==
  /\ \E m \in {"Proxy", "Write"} :
       /\ m # settings.operation_mode
       /\ settings' = [settings EXCEPT !.operation_mode = m]
  /\ UNCHANGED serverVars
  /\ UNCHANGED <<sortVars, toolVars, config, request, pc, providers, idx, retry, attempts, upstream, result>>

\* start_proxy_server up to the wait for the write lock
StartCall(c) ==
  /\ cpc[c] = "idle"
  /\ calls[c] < MaxCalls
  /\ calls' = [calls EXCEPT ![c] = @ + 1]
  /\ seen' = [seen EXCEPT ![c] = settings.operation_mode]
  /\ IF ~ModeIsProxy(settings) THEN Return(c, "Ok")
     ELSE IF ~initialized THEN Return(c, "Err")
     ELSE cpc' = [cpc EXCEPT ![c] = "start_wait"] /\ ret' = ret
  /\ UNCHANGED <<initialized, server_guard, tasks, lock, settings>>
  /\ UNCHANGED <<sortVars, toolVars, config, request, pc, providers, idx, retry, attempts, upstream, result>>

\* start_proxy_server from the write lock to the wait for the bind
StartLocked(c) ==
  /\ cpc[c] = "start_wait"
  /\ CanWrite(c)
  /\ IF AlreadyRunning
     THEN Return(c, "Ok") /\ lock' = lock
     ELSE cpc' = [cpc EXCEPT ![c] = "start_bind"] /\ ret' = ret /\ lock' = c
  /\ UNCHANGED <<initialized, server_guard, tasks, calls, settings, seen>>
  /\ UNCHANGED <<sortVars, toolVars, config, request, pc, providers, idx, retry, attempts, upstream, result>>

\* the bind succeeds: spawn the listener task, store its handle, unlock
StartBound(c) ==
  /\ cpc[c] = "start_bind"
  /\ PortFree
  /\ tasks' = Append(tasks, "running")
  /\ server_guard' = Some(Len(tasks) + 1)
  /\ lock' = "free"
  /\ Return(c, "Ok")
  /\ UNCHANGED <<initialized, calls, settings, seen>>
  /\ UNCHANGED <<sortVars, toolVars, config, request, pc, providers, idx, retry, attempts, upstream, result>>

\* a start that stores a handle before it knows the bind failed
StartBindFails_stored(c) ==
  /\ cpc[c] = "start_bind"
  /\ lock' = "free"
  /\ tasks' = Append(tasks, "gone")
  /\ server_guard' = Some(Len(tasks) + 1)
  /\ Return(c, "Err")
  /\ UNCHANGED <<initialized, calls, settings, seen>>
  /\ UNCHANGED <<sortVars, toolVars, config, request, pc, providers, idx, retry, attempts, upstream, result>>

\* the bind fails (the port is held by this or by another process)
StartBindFails(c) ==
  /\ cpc[c] = "start_bind"
  /\ lock' = "free"
  /\ Return(c, "Err")
  /\ UNCHANGED <<initialized, server_guard, tasks, calls, settings, seen>>
  /\ UNCHANGED <<sortVars, toolVars, config, request, pc, providers, idx, retry, attempts, upstream, result>>

\* stop_proxy_server up to the wait for the write lock
StopCall(c) ==
  /\ cpc[c] = "idle"
  /\ calls[c] < MaxCalls
  /\ calls' = [calls EXCEPT ![c] = @ + 1]
  /\ seen' = [seen EXCEPT ![c] = "-"]
  /\ IF ~initialized THEN Return(c, "Err")
     ELSE cpc' = [cpc EXCEPT ![c] = "stop_wait"] /\ ret' = ret
  /\ UNCHANGED <<initialized, server_guard, tasks, lock, settings>>
  /\ UNCHANGED <<sortVars, toolVars, config, request, pc, providers, idx, retry, attempts, upstream, result>>

\* stop_proxy_server under the write lock: take the handle and abort it
StopLocked(c) ==
  /\ cpc[c] = "stop_wait"
  /\ CanWrite(c)
  /\ IF server_guard.some
     THEN /\ server_guard' = None
          /\ tasks' = [tasks EXCEPT ![server_guard.v] = IF @ = "running" THEN "aborted" ELSE @]
     ELSE UNCHANGED <<server_guard, tasks>>
  /\ Return(c, "Ok")
  /\ UNCHANGED <<initialized, lock, calls, settings, seen>>
  /\ UNCHANGED <<sortVars, toolVars, config, request, pc, providers, idx, retry, attempts, upstream, result>>

\* the runtime drops an aborted task, which closes its listener
TaskCancelled ==
  /\ \E h \in 1..Len(tasks) :
       /\ tasks[h] = "aborted"
       /\ tasks' = [tasks EXCEPT ![h] = "gone"]
  /\ UNCHANGED <<initialized, server_guard, lock, cpc, ret, calls, settings, seen>>
  /\ UNCHANGED <<sortVars, toolVars, config, request, pc, providers, idx, retry, attempts, upstream, result>>

InitServer ==
  /\ settings \in [proxy_retry_count : {0}, operation_mode : {"Proxy", "Write"}]
  /\ ServerIdle
  /\ SortIdle
  /\ RouterIdle
  /\ ToolsIdle

NextServer ==
  \/ InitProxyServer
  \/ SetMode
  \/ \E c \in Callers : StartCall(c)
  \/ \E c \in Callers : StartLocked(c)
  \/ \E c \in Callers : StartBound(c)
  \/ \E c \in Callers : StartBindFails(c)
  \/ \E c \in Callers : StopCall(c)
  \/ \E c \in Callers : StopLocked(c)
  \/ TaskCancelled

SpecServer == InitServer /\ [][NextServer]_vars

\* =================================================== properties of the router
AttemptIds == {attempts[i].provider : i \in 1..Len(attempts)}
AttemptsOf(p) == {i \in 1..Len(attempts) : attempts[i].provider = p}
Answered200(i) == attempts[i].outcome = "response" /\ attempts[i].status = 200
Failed(i) ==
  \/ attempts[i].outcome = "error"
  \/ attempts[i].outcome = "response" /\ attempts[i].status # 200
Relayed == result.some /\ result.v.from # "-"
SnapshotProvider(id) == CHOOSE p \in {providers[i] : i \in 1..Len(providers)} : p.id = id
SentProviders == [i \in 1..Len(attempts) |-> attempts[i].provider]

\* C1: a request relays at most one upstream response, the relayed response
\* has status 200 and comes from the last attempt made, and no attempt
\* follows an attempt that was answered with 200.
C1_OneRelayOf200 ==
  /\ result.some <=> pc = "done"
  /\ \A i \in 1..Len(attempts) : Answered200(i) => i = Len(attempts)
  /\ Relayed => /\ result.v.status = 200
                /\ attempts # <<>>
                /\ Answered200(Len(attempts))
                /\ result.v.from = attempts[Len(attempts)].provider

C1_Witness ==
  /\ pc = "done" /\ Relayed
  /\ Len(attempts) >= 2
  /\ \E i \in 1..Len(attempts) : Failed(i)

\* C2: with providers a (sortIndex 1) and b (sortIndex 2) both eligible,
\* retryCount = 1, a answering 500 to every attempt and b answering 200, the
\* outbound attempts are a, a, b in this order and b's response is relayed.
C2_Scenario ==
  /\ app_type = "Claude"
  /\ {config.Claude[i].id : i \in 1..Len(config.Claude)} = {"a", "b"}
  /\ settings.proxy_retry_count = 1
  /\ \A i \in AttemptsOf("a") :
       attempts[i].outcome = "pending" \/ (attempts[i].outcome = "response" /\ attempts[i].status = 500)
  /\ \A i \in AttemptsOf("b") : attempts[i].outcome = "pending" \/ Answered200(i)

C2_FailoverOrder ==
  C2_Scenario =>
    /\ \A i \in 1..Len(attempts) : i <= 3 /\ attempts[i].provider = <<"a", "a", "b">>[i]
    /\ (pc = "done" /\ result.v.status \notin {400, 502}) =>
         /\ SentProviders = <<"a", "a", "b">>
         /\ result.v.from = "b" /\ result.v.status = 200

C2_Witness ==
  /\ C2_Scenario /\ pc = "done" /\ Relayed
  /\ config.Claude[1].id = "b"

\* C3: a provider that was attempted and whose every attempt failed has, once
\* the router has left it, received exactly retryCount + 1 attempts, and they
\* are consecutive; no provider ever receives more.
C3_AttemptsPerProvider ==
  \A p \in AttemptIds :
    LET mine == AttemptsOf(p)
        left == pc \in {"done", "panicked"} \/ attempts[Len(attempts)].provider # p
    IN /\ Cardinality(mine) <= settings.proxy_retry_count + 1
       /\ \A i, j \in mine : \A k \in i..j : k \in mine
       /\ ((\A i \in mine : Failed(i)) /\ left) =>
            Cardinality(mine) = settings.proxy_retry_count + 1

C3_Witness ==
  /\ settings.proxy_retry_count = 1
  /\ Len(attempts) = 3
  /\ attempts[1].provider = attempts[2].provider
  /\ attempts[1].outcome = "error" /\ attempts[2].outcome = "response"
  /\ attempts[3].provider # attempts[1].provider

\* C4: every outbound request carries exactly one Authorization value, the
\* bearer token of the provider it is sent to, whatever the inbound request
\* carried under that name.
C4_AuthorizationRewritten ==
  \A i \in 1..Len(attempts) :
    LET key == extract_provider_credentials(SnapshotProvider(attempts[i].provider), app_type).v.api_key
        auth == {n \in DOMAIN attempts[i].headers : lowercase(n) = "authorization"}
    IN /\ auth = {"authorization"}
       /\ attempts[i].headers["authorization"] = << <<"Bearer ">> \o key >>

C4_Witness ==
  /\ Len(attempts) >= 2
  /\ attempts[1].provider # attempts[Len(attempts)].provider
  /\ "authorization" \in DOMAIN InboundHeaders
  /\ Len(InboundHeaders["authorization"]) = 2

C4_WitnessNoInbound ==
  /\ attempts # <<>>
  /\ "authorization" \notin DOMAIN InboundHeaders

\* C5: no outbound request and no relayed response carries a header whose
\* lower-cased name is in the hop-by-hop deny-list.
C5_NoHopByHop ==
  /\ \A i \in 1..Len(attempts) :
       \A n \in DOMAIN attempts[i].headers : lowercase(n) \notin HOP_BY_HOP_HEADERS
  /\ result.some =>
       \A n \in DOMAIN result.v.headers : lowercase(n) \notin HOP_BY_HOP_HEADERS

C5_Witness ==
  /\ Relayed
  /\ \E i \in 1..Len(request.lines) : request.lines[i].name \in {"TE", "Host"}
  /\ \E i \in 1..Len(upstream.v) : upstream.v[i].name = "Transfer-Encoding"
  /\ DOMAIN result.v.headers # {}

\* C7: once the inbound body has been read, a request whose client kind has
\* no provider with the proxy flag set (an absent flag is not set) has ended
\* with status 503 and has made no outbound attempt.
C7_NoEligibleProvider ==
  (/\ pc # "recv"
   /\ ~(result.some /\ result.v.status = 400)
   /\ \A i \in 1..Len(config[app_type]) : config[app_type][i].proxy_enabled \in {None, Some(FALSE)})
  => /\ pc = "done"
     /\ result.v.status = 503
     /\ attempts = <<>>

C7_Witness ==
  /\ pc = "done" /\ result.v.status = 503
  /\ app_type = "Claude"
  /\ Len(config.Claude) = 2
  /\ \E i \in 1..2 : config.Claude[i].proxy_enabled = None
  /\ config.Codex # <<>>

\* C8: a request with a non-empty eligible list that ends without any attempt
\* answered 200 ends with status 500, and a request never makes more than
\* (eligible providers) x (retryCount + 1) attempts.
C8_Exhaustion ==
  /\ Len(attempts) <= Len(providers) * (settings.proxy_retry_count + 1)
  /\ (pc = "done" /\ providers # <<>> /\ \A i \in 1..Len(attempts) : Failed(i)) =>
       result.v.status = 500

C8_Witness ==
  /\ pc = "done" /\ result.v.status = 500
  /\ Len(providers) = 2
  /\ Len(attempts) = settings.proxy_retry_count + 1
  /\ settings.proxy_retry_count > 0
  /\ ~extract_provider_credentials(providers[2], app_type).ok

\* the provider's credentials extract for the request's client kind
Extractable(p) == extract_provider_credentials(p, app_type).ok

\* the extracted credentials give a target URL the request builder accepts
Buildable(p) ==
  /\ Extractable(p)
  /\ UriBuilds(TargetUrl(extract_provider_credentials(p, app_type).v.base_url, request.path))

\* the handler returned because the provider loop ran to its end
Exhausted == pc = "done" /\ result.v.status = 500

\* C22: a provider of the snapshot whose credentials do not extract gets no
\* outbound attempt and costs the others nothing: the router is never
\* suspended on it, and when the loop runs to its end every provider that
\* was tried has had its retryCount + 1 attempts.
C22_SkipIsFree ==
  /\ \A i \in 1..Len(providers) :
       ~Extractable(providers[i]) => AttemptsOf(providers[i].id) = {}
  /\ pc \in {"await", "sleep", "body"} => Buildable(providers[idx])
  /\ Exhausted =>
       \A i \in 1..Len(providers) :
          Buildable(providers[i]) =>
             Cardinality(AttemptsOf(providers[i].id)) = settings.proxy_retry_count + 1

\* the first provider of the snapshot is skipped and the second gets its two
\* attempts
C22_Witness ==
  /\ Exhausted
  /\ settings.proxy_retry_count = 1
  /\ Len(providers) = 2
  /\ ~Extractable(providers[1])
  /\ SentProviders = <<providers[2].id, providers[2].id>>

\* the skipped provider is the first of the snapshot and the attempt after
\* the skip is answered
C22_WitnessRelayed ==
  /\ Relayed
  /\ Len(providers) = 2
  /\ ~Extractable(providers[1])
  /\ result.v.from = providers[2].id

\* C23: for a request with a non-empty eligible list, a failure status is
\* returned to the caller only when every provider of the list has been
\* skipped or has had all of its retryCount + 1 attempts.
C23_FailureOnlyAfterExhaustion ==
  (pc = "done" /\ providers # <<>> /\ ~Relayed) =>
     \A i \in 1..Len(providers) :
        \/ ~Buildable(providers[i])
        \/ Cardinality(AttemptsOf(providers[i].id)) = settings.proxy_retry_count + 1

\* the step hands a new outbound request to the HTTP client
Sends == Len(attempts') = Len(attempts) + 1

\* C25: at most one attempt is pending, the last one, and only while the
\* handler waits for it; the backoff starts only after a failed attempt that
\* is not the provider's last, is followed by an attempt to the same
\* provider, and stands before every attempt but a provider's first.
C25_OneAtATime ==
  /\ [](\A i \in 1..Len(attempts) :
          attempts[i].outcome = "pending" <=> (i = Len(attempts) /\ pc = "await"))
  /\ [][/\ (pc # "sleep" /\ pc' = "sleep") =>
             /\ pc = "await" /\ Failed(Len(attempts))'
             /\ Cardinality(AttemptsOf(attempts[Len(attempts)].provider))
                  < settings.proxy_retry_count + 1
        /\ (pc = "sleep" /\ pc' # "sleep") =>
             /\ Sends
             /\ attempts'[Len(attempts')].provider = attempts[Len(attempts)].provider
        /\ (Sends /\ attempts # <<>>) =>
             (pc = "sleep" <=>
                attempts'[Len(attempts')].provider = attempts[Len(attempts)].provider)
        /\ (Sends /\ attempts = <<>>) => pc = "recv"
       ]_vars

\* a backoff between the two attempts to one provider, none before the next
\* provider's first attempt
C25_Witness ==
  /\ pc = "sleep"
  /\ settings.proxy_retry_count = 1
  /\ Len(attempts) = 3
  /\ attempts[1].provider = attempts[2].provider
  /\ attempts[2].provider # attempts[3].provider

\* with retryCount = 0 a request fails over without any backoff
C25_WitnessNoBackoff ==
  /\ Relayed
  /\ settings.proxy_retry_count = 0
  /\ Len(attempts) = 2

\* the inbound header names that are forwarded as they came
Forwarded == {n \in DOMAIN InboundHeaders : KeepOutbound(n)}

\* C26: every outbound request carries, under each inbound name that is
\* neither hop-by-hop nor Authorization, the values the inbound request
\* carried under it, all of them and in order, and no name besides these
\* and authorization.
C26_HeadersVerbatim ==
  \A i \in 1..Len(attempts) :
     /\ DOMAIN attempts[i].headers = Forwarded \cup {"authorization"}
     /\ \A n \in Forwarded : attempts[i].headers[n] = InboundHeaders[n]

\* ================================================= properties of the ordering
InputPosition(p) == CHOOSE i \in 1..Len(sort_in) : sort_in[i].id = p.id

\* C6: in the sorted list a provider with a sortIndex precedes every provider
\* without one; of two providers whose sortIndex is equal or absent on both,
\* the one with the earlier createdAt comes first; two providers equal on
\* both keys keep their input order.
C6_TotalOrder ==
  sort_out.some =>
    \A i, j \in 1..Len(sort_out.v) :
      i < j =>
        LET x == sort_out.v[i]
            y == sort_out.v[j]
        IN /\ ~(~x.sort_index.some /\ y.sort_index.some)
           /\ (x.sort_index = y.sort_index /\ x.created_at.some /\ y.created_at.some)
                => x.created_at.v <= y.created_at.v
           /\ (x.sort_index = y.sort_index /\ x.created_at = y.created_at)
                => InputPosition(x) < InputPosition(y)

\* ================================================== properties of the server
AliveTasks == {h \in 1..Len(tasks) : HoldsPort(h)}

\* C9: a start that finds the server running returns Ok without reaching the
\* bind and leaves handle and tasks as they are; a stop that finds no server
\* returns Ok and leaves them as they are; the stored handle only ever
\* changes from none to a newly spawned task or from a task to none.
C9_IdempotentLifecycle ==
  [][/\ \A c \in Callers :
          (cpc[c] = "start_wait" /\ cpc'[c] # "start_wait" /\ server_guard.some) =>
             /\ cpc'[c] = "idle" /\ ret'[c] = "Ok"
             /\ UNCHANGED <<server_guard, tasks>>
     /\ \A c \in Callers :
          (cpc[c] = "stop_wait" /\ cpc'[c] # "stop_wait" /\ ~server_guard.some) =>
             /\ cpc'[c] = "idle" /\ ret'[c] = "Ok"
             /\ UNCHANGED <<server_guard, tasks>>
     /\ server_guard' # server_guard =>
          \/ /\ ~server_guard.some /\ server_guard'.some
             /\ Len(tasks') = Len(tasks) + 1
             /\ server_guard'.v = Len(tasks')
          \/ server_guard.some /\ ~server_guard'.some
    ]_vars

C9_Witness ==
  /\ Len(tasks) = 2
  /\ server_guard = Some(2)
  /\ \E c \in Callers : calls[c] = 2 /\ cpc[c] = "idle" /\ ret[c] = "Ok"

C9_WitnessStartTwice ==
  /\ server_guard = Some(1)
  /\ \E c \in Callers : cpc[c] = "start_wait"

C9_WitnessStopTwice ==
  /\ server_guard = None
  /\ Len(tasks) = 1
  /\ \E c \in Callers : cpc[c] = "stop_wait"

\* C10: at most one listener task is alive; at most one call is between the
\* check for an existing server and the store of the handle, and it holds the
\* write lock while the handle is still none; every task that has not been
\* aborted is the one whose handle is stored.
C10_SingleListener ==
  /\ Cardinality(AliveTasks) <= 1
  /\ Cardinality({c \in Callers : cpc[c] = "start_bind"}) <= 1
  /\ \A c \in Callers : cpc[c] = "start_bind" => (lock = c /\ ~server_guard.some)
  /\ \A h \in 1..Len(tasks) : tasks[h] = "running" <=> server_guard = Some(h)

C10_Witness ==
  /\ \E c, d \in Callers : cpc[c] = "start_bind" /\ cpc[d] = "start_wait"
  /\ \E h \in 1..Len(tasks) : tasks[h] = "aborted"

C10_WitnessStopDuringStart ==
  \E c, d \in Callers : cpc[c] = "start_bind" /\ cpc[d] = "stop_wait"

\* C11: a start call made while the operation mode is not Proxy returns Ok at
\* once, without waiting for the lock, and leaves the handle, the tasks, the
\* lock and the initialization as they are; a listener task is only spawned by
\* a caller whose start call read the mode Proxy.
C11_StartOnlyInProxyMode ==
  [][/\ \A c \in Callers :
          (calls'[c] # calls[c] /\ seen'[c] # "-" /\ settings.operation_mode # "Proxy") =>
             /\ cpc'[c] = "idle" /\ ret'[c] = "Ok"
             /\ UNCHANGED <<initialized, server_guard, tasks, lock>>
     /\ Len(tasks') > Len(tasks) =>
          \E c \in Callers :
             /\ cpc[c] = "start_bind" /\ cpc'[c] = "idle"
             /\ seen[c] = "Proxy"
    ]_vars

\* a start call in Write mode has returned Ok while the server is running
\* and the lock is held by the other caller's start
C11_Witness ==
  \E c, d \in Callers :
     /\ seen[c] = "Write" /\ cpc[c] = "idle" /\ ret[c] = "Ok"
     /\ seen[d] = "Proxy" /\ cpc[d] = "start_bind"
     /\ settings.operation_mode = "Write"

\* a listener spawned after the mode has left Proxy, by a start that read Proxy
C11_WitnessModeChanged ==
  /\ settings.operation_mode = "Write"
  /\ server_guard.some
  /\ \E c \in Callers : seen[c] = "Proxy" /\ ret[c] = "Ok" /\ calls[c] = 1

\* caller c takes a step of its start or stop call
CallStep(c) == cpc'[c] # cpc[c] \/ calls'[c] # calls[c]

\* the step ends a call of c with the value
Returns(c, value) == CallStep(c) /\ cpc'[c] = "idle" /\ ret'[c] = value

\* C28: no step of a start or stop call other than one that returns Ok
\* changes the stored handle, the tasks or the initialization; a call that
\* returns an error leaves no handle stored and the write lock free, so that
\* the next start is not held up by it.
C28_ErrorLeavesNoTrace ==
  [][\A c \in Callers :
       /\ (CallStep(c) /\ ~Returns(c, "Ok")) =>
            UNCHANGED <<server_guard, tasks, initialized>>
       /\ Returns(c, "Err") =>
            /\ ~server_guard'.some
            /\ lock' = "free"
            /\ \A h \in 1..Len(tasks') : tasks'[h] # "running"
    ]_vars

\* a start that failed before init_proxy_server is followed by a start that
\* brings the server up
C28_Witness ==
  /\ ret["c1"] = "Err" /\ calls["c1"] = 1 /\ seen["c1"] = "Proxy"
  /\ ret["c2"] = "Ok" /\ calls["c2"] = 1
  /\ server_guard = Some(1) /\ tasks = <<"running">>

\* a start whose bind failed because an aborted listener still held the
\* port, followed by the other caller's start after the task was dropped
C28_WitnessBind ==
  /\ ret["c1"] = "Err" /\ calls["c1"] = 2 /\ seen["c1"] = "Proxy"
  /\ ret["c2"] = "Ok" /\ calls["c2"] = 2
  /\ server_guard = Some(2) /\ tasks = <<"gone", "running">>

\* ------------------------------------------------------ the mode switch
PROXY_URL == <<"http://127.0.0.1:12857">>
PROXY_TOKEN == <<"ccswitch-proxymode-token">>

CREDENTIAL_KEYS == {"ANTHROPIC_AUTH_TOKEN", "ANTHROPIC_BASE_URL"}

\* a JSON text is written as the value it denotes, or as malformed
JsonText(v) == [json |-> Some(v)]
Malformed == [json |-> None]

\* serde_json::from_str::<Value>
from_str(text) == IF text.json.some THEN Ok(text.json.v) ELSE Err("syntax")

\* the file at path holds the value afterwards
write_json_file(files, path, value) == [files EXCEPT ![path] = value]

\* both files of the Codex client hold what was handed over
write_codex_live_atomic(files, auth, cfg_text) ==
  [files EXCEPT !.codex_auth = auth, !.codex_config = cfg_text]

\* std::fs::write of config.toml
write_config_toml(files, text) == [files EXCEPT !.codex_config = Some(text)]

\* the loop over common_env: every key but the two credential keys is
\* inserted into the env of the proxy config
MergeEnv(proxy_env, common_env) ==
  [k \in DOMAIN proxy_env \cup (DOMAIN common_env \ CREDENTIAL_KEYS) |->
     IF k \in DOMAIN common_env \ CREDENTIAL_KEYS THEN common_env[k] ELSE proxy_env[k]]

\* the loop over common_map: env is merged when it is an object and skipped
\* otherwise, every other key is inserted
MergeCommon(proxy_map, common_map) ==
  [k \in DOMAIN proxy_map \cup DOMAIN common_map |->
     IF k \notin DOMAIN common_map THEN proxy_map[k]
     ELSE IF k = "env"
          THEN IF common_map[k].t = "object"
               THEN JObject(MergeEnv(proxy_map[k].f, common_map[k].f))
               ELSE proxy_map[k]
          ELSE common_map[k]]

\* the settings.json of the proxy mode
ClaudeProxyConfig(common_config) ==
  LET proxy_map == [env |-> JObject([ANTHROPIC_AUTH_TOKEN |-> JString(PROXY_TOKEN),
                                     ANTHROPIC_BASE_URL |-> JString(PROXY_URL)])]
      parsed == IF common_config.some THEN from_str(common_config.v) ELSE Err("none")
  IN IF parsed.ok /\ parsed.v.t = "object"
     THEN JObject(MergeCommon(proxy_map, parsed.v.f))
     ELSE JObject(proxy_map)

\* the auth.json of the proxy mode
CodexProxyAuth == JObject([OPENAI_API_KEY |-> JString(PROXY_TOKEN)])

\* the fixed template of config.toml up to the proxy URL, and after it
TEMPLATE_HEAD ==
  <<"model_provider = \"ccswitch\"", "\n", "\n", "[model_providers.ccswitch]", "\n",
    "base_url", " ", "=", " ", "\"">>
TEMPLATE_TAIL ==
  <<"\"", "\n", "name = \"ccswitch\"", "\n", "requires_openai_auth = true", "\n",
    "wire_api = \"responses\"", "\n">>

\* the config.toml of the proxy mode: the template, then the common text
CodexProxyConfig(common_config) ==
  LET common_config_text == IF common_config.some THEN common_config.v ELSE <<>>
  IN TEMPLATE_HEAD \o PROXY_URL \o TEMPLATE_TAIL \o
     (IF common_config_text = <<>> THEN <<>> ELSE <<"\n">> \o common_config_text)

\* the common configs of the two clients a caller hands over together
Commons ==
  { [Claude |-> None, Codex |-> None],
    [Claude |-> Some(Malformed), Codex |-> Some(<<>>)],
    [Claude |-> Some(JsonText(JString(<<"not an object">>))),
     Codex |-> Some(<<"model = \"gpt-5\"">>)],
    [Claude |-> Some(JsonText(JObject(
                  [model |-> JString(<<"opus">>),
                   env |-> JObject([ANTHROPIC_AUTH_TOKEN |-> JString(<<"sk-mine">>),
                                    ANTHROPIC_BASE_URL |-> JString(<<"https://mine">>),
                                    HTTPS_PROXY |-> JString(<<"http://p">>)])]))),
     Codex |-> Some(<<"base_url", " ", "=", " ", "\"", "https://mine", "\"">>)],
    [Claude |-> Some(JsonText(JObject(
                  [env |-> JString(<<"not an object">>),
                   permissions |-> JObject([allow |-> JString(<<"all">>)])]))),
     Codex |-> Some(<<"model = \"gpt-5\"">>)] }

\* the file writes of switch_to_proxy_mode, in order; each may fail
ProxyWrites == <<"claude_settings", "codex_auth", "codex_config">>

\* switch_to_proxy_mode: the three files are written in order, and the
\* first write that fails ends the switch
SwitchToProxyMode ==
  /\ nswitch < MaxSwitches
  /\ nswitch' = nswitch + 1
  /\ \E common_config \in Commons, done \in 0..Len(ProxyWrites) :
       LET live1 == write_json_file(live, "claude_settings",
                                    ClaudeProxyConfig(common_config.Claude))
           live2 == write_json_file(live1, "codex_auth", CodexProxyAuth)
           live3 == write_config_toml(live2, CodexProxyConfig(common_config.Codex))
       IN /\ live' = <<live, live1, live2, live3>>[done + 1]
          /\ common' = common_config
          /\ last' = [op |-> "proxy",
                      ret |-> IF done = Len(ProxyWrites) THEN "Ok" ELSE "Err",
                      why |-> IF done = Len(ProxyWrites) THEN "-" ELSE ProxyWrites[done + 1],
                      prev |-> <<last.op, last.ret>>, was |-> current]
  /\ UNCHANGED <<current, saved>>
  /\ UNCHANGED <<routerVars, sortVars, serverVars, validateVars, scriptVars, detectVars, extractVars, lockVars>>

\* manager.providers.get(id)
ProviderById(registry, id) ==
  IF \E i \in 1..Len(registry) : registry[i].id = id
  THEN Some(registry[CHOOSE i \in 1..Len(registry) : registry[i].id = id])
  ELSE None

\* a fallback that takes the registry's first provider as it iterates
WriteModeTarget_unsorted(registry, cur) ==
  IF cur # "" THEN ProviderById(registry, cur)
  ELSE IF registry = <<>> THEN None ELSE Some(registry[1])

\* the provider whose config the switch writes for one kind: the current
\* one, or with no current the first of all providers as sort_by leaves them
WriteModeTarget(registry, cur) ==
  IF cur # "" THEN ProviderById(registry, cur)
  ELSE LET sorted == SortProviders(registry)
       IN IF sorted = <<>> THEN None ELSE Some(sorted[1])

\* a restore that leaves the live settings as they are
RestoreClaude_skipped(files, provider) == files

\* write_json_file(&settings_path, &provider.settings_config)
RestoreClaude(files, provider) ==
  write_json_file(files, "claude_settings", provider.settings_config)

\* write_codex_live_atomic(auth, cfg_text)
RestoreCodex(files, provider) ==
  write_codex_live_atomic(files, JGet(provider.settings_config, "auth").v,
                          AsStr(JGet(provider.settings_config, "config")))

\* the steps of switch_to_write_mode that can fail from outside
WriteFailPoints == {"none", "claude_settings", "codex_live", "save"}

\* switch_to_write_mode with an outside failure at fail: the state it
\* leaves and what it returns
WriteModeOutcome(fail) ==
  LET claude == WriteModeTarget(config.Claude, current.Claude)
      codex == WriteModeTarget(config.Codex, current.Codex)
      live1 == IF claude.some THEN RestoreClaude(live, claude.v) ELSE live
      cur1 == IF claude.some THEN [current EXCEPT !.Claude = claude.v.id] ELSE current
      live2 == IF codex.some THEN RestoreCodex(live1, codex.v) ELSE live1
      cur2 == IF codex.some THEN [cur1 EXCEPT !.Codex = codex.v.id] ELSE cur1
      out(l, c, s, r, w) == [live |-> l, current |-> c, saved |-> s, ret |-> r, why |-> w]
  IN IF claude.some /\ fail = "claude_settings"
     THEN out(live, current, saved, "Err", "claude_settings")
     ELSE IF codex.some /\ ~JGet(codex.v.settings_config, "auth").some
     THEN out(live1, cur1, saved, "Err", "missing auth")
     ELSE IF codex.some /\ fail = "codex_live"
     THEN out(live1, cur1, saved, "Err", "codex_live")
     ELSE IF fail = "save"
     THEN out(live2, cur2, saved, "Err", "save")
     ELSE out(live2, cur2, cur2, "Ok", "-")

SwitchToWriteMode ==
  /\ nswitch < MaxSwitches
  /\ nswitch' = nswitch + 1
  /\ \E fail \in WriteFailPoints :
       LET o == WriteModeOutcome(fail)
       IN /\ live' = o.live
          /\ current' = o.current
          /\ saved' = o.saved
          /\ last' = [op |-> "write", ret |-> o.ret, why |-> o.why,
                      prev |-> <<last.op, last.ret>>, was |-> current]
  /\ UNCHANGED common
  /\ UNCHANGED <<routerVars, sortVars, serverVars, validateVars, scriptVars, detectVars, extractVars, lockVars>>

\* the providers the registries of a mode switch are drawn from
SwitchClaudePool == {p \in ClaudePool : p.id \in {"a", "b"}}

SwitchCodexPool ==
  { Provider("x", None, Some(1), Some(TRUE), CodexConfig(KEY_B, TOML_B)),
    Provider("y", None, None, Some(TRUE), ClaudeConfig(KEY_A, URL_A)),
    Provider("z", Some(1), None, None,
             JObject([auth |-> JObject([OPENAI_API_KEY |-> JString(KEY_A)])])) }

\* the values of manager.current: none, a provider of the registry, or the
\* id of a provider that is no longer in it
Currents(registry) == {"", "gone"} \cup {registry[i].id : i \in 1..Len(registry)}

\* the registry that iterates the members of S in the order of ids
RegistryOf(S, ids) == [i \in 1..Len(ids) |-> CHOOSE p \in S : p.id = ids[i]]

\* the registries of a mode switch, as their HashMaps iterate: empty, one
\* provider, and two whose iteration order is not their sorted order
SwitchClaudeRegistries ==
  {RegistryOf(SwitchClaudePool, ids) : ids \in {<<>>, <<"a">>, <<"b", "a">>}}

SwitchCodexRegistries ==
  {RegistryOf(SwitchCodexPool, ids) : ids \in {<<>>, <<"x">>, <<"y">>, <<"x", "z">>}}

InitSwitch ==
  /\ config \in [Claude : SwitchClaudeRegistries, Codex : SwitchCodexRegistries]
  /\ current \in [Claude : Currents(config.Claude), Codex : Currents(config.Codex)]
  /\ saved = current
  /\ live = StaleFiles
  /\ common = [Claude |-> None, Codex |-> None]
  /\ last = [op |-> "-", ret |-> "-", why |-> "-", prev |-> <<"-", "-">>,
             was |-> current]
  /\ nswitch = 0
  /\ settings = [proxy_retry_count |-> 0, operation_mode |-> "Proxy"]
  /\ HandlerIdle
  /\ SortIdle
  /\ ServerIdle
  /\ ValidateIdle
  /\ ScriptIdle
  /\ DetectIdle
  /\ ExtractIdle
  /\ LockIdle

NextSwitch ==
  \/ SwitchToProxyMode
  \/ SwitchToWriteMode

SpecSwitch == InitSwitch /\ [][NextSwitch]_vars

\* =========================================== properties of the mode switch
Kinds == {"Claude", "Codex"}

\* the kind's live files hold the content of the provider's settings_config
LiveEquals(files, kind, provider) ==
  IF kind = "Claude"
  THEN files.claude_settings = provider.settings_config
  ELSE /\ provider.settings_config.t = "object"
       /\ "auth" \in DOMAIN provider.settings_config.f
       /\ files.codex_auth = provider.settings_config.f.auth
       /\ files.codex_config =
            IF "config" \in DOMAIN provider.settings_config.f
            THEN Some(provider.settings_config.f.config.s) ELSE None

\* the kind's live files hold the placeholder token or the proxy address
HoldsPlaceholder(files, kind) ==
  IF kind = "Claude"
  THEN \E k \in CREDENTIAL_KEYS :
         JGet(JGet(files.claude_settings, "env").v, k) \in {Some(JString(PROXY_TOKEN)), Some(JString(PROXY_URL))}
  ELSE \/ JGet(files.codex_auth, "OPENAI_API_KEY") = Some(JString(PROXY_TOKEN))
       \/ files.codex_config.some /\ Contains(files.codex_config.v, PROXY_URL[1])

\* the errors of switch_to_write_mode that come from the kind's own block
KindErrors(kind) ==
  IF kind = "Claude" THEN {"claude_settings"} ELSE {"missing auth", "codex_live"}

\* the switch_to_write_mode step just taken got past the write of the kind
Restored(kind) ==
  /\ nswitch' # nswitch
  /\ last'.op = "write"
  /\ last'.why \notin KindErrors("Claude")
  /\ kind = "Codex" => last'.why \notin KindErrors("Codex")

\* C12: a switch_to_write_mode that gets past the write of a client kind
\* whose current names a provider of the registry, after a switch to the
\* proxy mode or in any other state, leaves the kind's live files equal to
\* that provider's settings_config, free of the placeholder token and the
\* proxy address, and leaves current as it was.
C12_RoundTrip ==
  [][\A k \in Kinds :
       (Restored(k) /\ ProviderById(config[k], current[k]).some) =>
          /\ LiveEquals(live', k, ProviderById(config[k], current[k]).v)
          /\ ~HoldsPlaceholder(live', k)
          /\ current'[k] = current[k]
    ]_vars

\* proxy mode, then write mode, both Ok, with a current provider of each kind
C12_Witness ==
  /\ last.op = "write" /\ last.ret = "Ok" /\ last.prev = <<"proxy", "Ok">>
  /\ current = [Claude |-> "b", Codex |-> "x"]
  /\ LiveEquals(live, "Claude", ProviderById(config.Claude, "b").v)
  /\ live.codex_config = Some(TOML_B)

\* the placeholder pair is in the live files after the switch to proxy mode
C12_WitnessPlaceholder ==
  /\ last.op = "proxy" /\ last.ret = "Ok"
  /\ current = [Claude |-> "b", Codex |-> "x"]
  /\ HoldsPlaceholder(live, "Claude") /\ HoldsPlaceholder(live, "Codex")

\* the values assigned to base_url anywhere in a config.toml text
BaseUrlAssignments(text) ==
  { MatchBaseUrlAt(text, i).v : i \in {j \in 1..Len(text) : MatchBaseUrlAt(text, j).some} }

\* the fields of the Claude common config the caller handed over: the
\* top-level keys, and the keys of its env, of a text that is a JSON object
CommonMap ==
  IF common.Claude.some /\ from_str(common.Claude.v).ok /\ from_str(common.Claude.v).v.t = "object"
  THEN from_str(common.Claude.v).v.f ELSE [k \in {} |-> JNull]

CommonEnv ==
  IF "env" \in DOMAIN CommonMap /\ CommonMap["env"].t = "object"
  THEN CommonMap["env"].f ELSE [k \in {} |-> JNull]

LiveEnv == JGet(live.claude_settings, "env").v

\* C13: after a switch to the proxy mode that wrote every file, Claude's env
\* holds the proxy token and the proxy address, every other key of the
\* caller's env and every other top-level key of the caller's common config
\* is in the settings with the caller's value; Codex's auth holds the proxy
\* token, every base_url assignment of config.toml assigns the proxy address,
\* and the caller's common text is in config.toml.
C13_PlaceholderPair ==
  (last.op = "proxy" /\ last.ret = "Ok") =>
     /\ JGet(LiveEnv, "ANTHROPIC_AUTH_TOKEN") = Some(JString(PROXY_TOKEN))
     /\ JGet(LiveEnv, "ANTHROPIC_BASE_URL") = Some(JString(PROXY_URL))
     /\ \A k \in DOMAIN CommonMap \ {"env"} :
          JGet(live.claude_settings, k) = Some(CommonMap[k])
     /\ \A k \in DOMAIN CommonEnv \ CREDENTIAL_KEYS :
          JGet(LiveEnv, k) = Some(CommonEnv[k])
     /\ JGet(live.codex_auth, "OPENAI_API_KEY") = Some(JString(PROXY_TOKEN))
     /\ BaseUrlAssignments(live.codex_config.v) = {PROXY_URL}
     /\ common.Codex.some =>
          LET text == live.codex_config.v
              n == Len(common.Codex.v)
          IN SubSeq(text, Len(text) - n + 1, Len(text)) = common.Codex.v

\* the live files of one client kind
KindFiles(files, kind) ==
  IF kind = "Claude" THEN <<files.claude_settings>>
  ELSE <<files.codex_auth, files.codex_config>>

\* C14: a switch_to_write_mode step for a kind without current: with a
\* non-empty registry, once the step is past the kind's write, the live files
\* hold the config of the first provider of the whole registry as the
\* router's sort orders it and current is that provider's id, which is also
\* the saved current when the switch returns Ok; with an empty registry the
\* kind's files and its empty current stay as they are and the kind is not
\* the cause of an error.
C14_FallbackPick ==
  [][\A k \in Kinds :
       (nswitch' # nswitch /\ last'.op = "write" /\ current[k] = "") =>
          IF config[k] # <<>>
          THEN /\ Restored(k) =>
                    /\ LiveEquals(live', k, SortProviders(config[k])[1])
                    /\ current'[k] = SortProviders(config[k])[1].id
               /\ last'.ret = "Ok" => saved'[k] = SortProviders(config[k])[1].id
          ELSE /\ KindFiles(live', k) = KindFiles(live, k)
               /\ current'[k] = ""
               /\ last'.why \notin KindErrors(k)
               /\ (config.Claude = <<>> /\ config.Codex = <<>>) => last'.why \in {"-", "save"}
    ]_vars

\* the fallback took provider a, which the registry iterates second, and
\* the switch saved it; the other kind has no provider and stayed empty
C14_Witness ==
  /\ last.op = "write" /\ last.ret = "Ok"
  /\ last.was = [Claude |-> "", Codex |-> ""]
  /\ Len(config.Claude) = 2 /\ config.Claude[2].id = "a"
  /\ current.Claude = "a" /\ saved.Claude = "a"
  /\ live.claude_settings = config.Claude[2].settings_config
  /\ config.Codex = <<>> /\ current.Codex = "" /\ saved.Codex = ""

\* the same for the Codex kind, after a switch to the proxy mode
C14_WitnessCodex ==
  /\ last.op = "write" /\ last.ret = "Ok" /\ last.prev = <<"proxy", "Ok">>
  /\ last.was.Codex = ""
  /\ Len(config.Codex) = 2 /\ config.Codex[2].id = "z"
  /\ current.Codex = "z" /\ saved.Codex = "z"
  /\ live.codex_config = None

\* the provider the last switch_to_write_mode had to write for the kind
LastTarget(kind) == WriteModeTarget(config[kind], last.was[kind])

\* C15: a switch_to_write_mode that reaches a Codex provider without auth
\* returns an error; and when the switch fails in the Codex block, what it
\* did for Claude stays: the live settings hold the Claude provider's
\* config, and current names that provider in memory and in the saved
\* registry.
C15_PartialSuccess ==
  last.op = "write" =>
     /\ (/\ LastTarget("Codex").some
         /\ ~JGet(LastTarget("Codex").v.settings_config, "auth").some
         /\ last.why \notin KindErrors("Claude")) =>
            last.ret = "Err" /\ last.why = "missing auth"
     /\ (last.why \in KindErrors("Codex") /\ LastTarget("Claude").some) =>
            /\ LiveEquals(live, "Claude", LastTarget("Claude").v)
            /\ current.Claude = LastTarget("Claude").v.id
            /\ saved.Claude = current.Claude

\* C27: after a switch_to_write_mode that returned Ok, every kind with a
\* non-empty registry has a current that names a provider of the registry,
\* and the kind's live files hold that provider's config and neither the
\* placeholder token nor the proxy address.
C27_WriteModeSelects ==
  (last.op = "write" /\ last.ret = "Ok") =>
     \A k \in Kinds :
        config[k] # <<>> =>
           /\ current[k] # ""
           /\ ProviderById(config[k], current[k]).some
           /\ LiveEquals(live, k, ProviderById(config[k], current[k]).v)
           /\ ~HoldsPlaceholder(live, k)

\* ------------------------------------------------- the usage validator
\* the type checks of validate_single_usage, in the order it makes them
FIELD_CHECKS ==
  << <<"isValid", "boolean">>, <<"invalidMessage", "string">>, <<"remaining", "number">>,
     <<"unit", "string">>, <<"total", "number">>, <<"used", "number">>,
     <<"planName", "string">>, <<"extra", "string">> >>

\* obj.contains_key(f) && !result[f].is_null() && !result[f].is_<type>()
Mismatch(obj, check) ==
  /\ check[1] \in DOMAIN obj
  /\ obj[check[1]].t # "null"
  /\ obj[check[1]].t # check[2]

\* the message of validate_single_usage: the field it names, if any
FieldError(field) == [index |-> None, field |-> Some(field)]
NotObjectError == [index |-> None, field |-> None]
EmptyArrayError == [index |-> None, field |-> None, empty |-> TRUE]

validate_single_usage(value) ==
  IF value.t # "object" THEN Err(NotObjectError)
  ELSE LET bad == {i \in 1..Len(FIELD_CHECKS) : Mismatch(value.f, FIELD_CHECKS[i])}
       IN IF bad = {} THEN Ok(<<>>)
          ELSE Err(FieldError(FIELD_CHECKS[CHOOSE i \in bad : \A j \in bad : i <= j][1]))

\* a message that counts the elements from one
ArrayError_one_based(i, e) == [e EXCEPT !.index = Some(i + 1)]

\* the map_err of the loop: the idx of enumerate() is put before the message
ArrayError(i, e) == [e EXCEPT !.index = Some(i)]

\* an emptiness check that lets every array through
CheckNotEmpty_skipped(arr) == Ok(<<>>)

\* if arr.is_empty() { return Err(..) }
CheckNotEmpty(arr) == IF arr = <<>> THEN Err(EmptyArrayError) ELSE Ok(<<>>)

validate_result(value) ==
  IF value.t = "array"
  THEN IF ~CheckNotEmpty(value.a).ok THEN CheckNotEmpty(value.a)
       ELSE LET bad == {i \in 1..Len(value.a) : ~validate_single_usage(value.a[i]).ok}
            IN IF bad = {} THEN Ok(<<>>)
               ELSE LET first == CHOOSE i \in bad : \A j \in bad : i <= j
                    IN Err(ArrayError(first - 1, validate_single_usage(value.a[first]).e))
  ELSE validate_single_usage(value)

\* the values a script's extractor returns
Scalars == {JNull, JBool(TRUE), JNumber(100), JString(<<"100">>)}
FieldValues == Scalars \cup {JObject([nested |-> JNull])}
UsageKeys ==
  {"isValid", "invalidMessage", "remaining", "unit", "total", "used", "planName",
   "extra", "other"}

\* the objects with at most n keys
Objects(n) ==
  { JObject(f) : f \in UNION { [S -> FieldValues] :
                               S \in {T \in SUBSET UsageKeys : Cardinality(T) <= n} } }

Elements == Scalars \cup Objects(1)

\* the arrays of at most n elements
Arrays(n) == { JArray(a) : a \in UNION { [1..k -> Elements] : k \in 0..n } }

ValidatorInputs(fields, len) == Scalars \cup Objects(fields) \cup Arrays(len)

InitValidate ==
  /\ usage_in \in ValidatorInputs(MaxFields, MaxArrayLen)
  /\ usage_out = None
  /\ settings = [proxy_retry_count |-> 0, operation_mode |-> "Proxy"]
  /\ RouterIdle
  /\ SortIdle
  /\ ServerIdle
  /\ SwitchIdle
  /\ ScriptIdle
  /\ DetectIdle
  /\ ExtractIdle
  /\ LockIdle

Validate ==
  /\ usage_out = None
  /\ usage_out' = Some(validate_result(usage_in))
  /\ UNCHANGED <<usage_in, routerVars, sortVars, serverVars, switchVars, scriptVars, detectVars, extractVars, lockVars>>

NextValidate == Validate

SpecValidate == InitValidate /\ [][NextValidate]_vars

\* ============================================ properties of the validator
\* the declared type of each recognized field
DeclaredType ==
  [f \in {"isValid"} |-> "boolean"] @@
  [f \in {"invalidMessage", "unit", "planName", "extra"} |-> "string"] @@
  [f \in {"remaining", "total", "used"} |-> "number"]

\* an object in which every recognized field is absent, null or of its type
UsageObject(v) ==
  /\ v.t = "object"
  /\ \A f \in DOMAIN v.f \cap DOMAIN DeclaredType : v.f[f].t \in {"null", DeclaredType[f]}

Acceptable(v) ==
  IF v.t = "array"
  THEN Len(v.a) > 0 /\ \A i \in 1..Len(v.a) : UsageObject(v.a[i])
  ELSE UsageObject(v)

\* C16: validate_result returns Ok exactly for a usage object and for a
\* non-empty array of usage objects, a usage object being an object whose
\* recognized fields are each absent, null or of the declared type.
C16_AcceptsIffWellTyped ==
  usage_out.some => (usage_out.v.ok <=> Acceptable(usage_in))

\* an array whose second element carries a non-boolean isValid is rejected
C16_Witness ==
  /\ usage_out.some /\ ~usage_out.v.ok
  /\ usage_in.t = "array" /\ Len(usage_in.a) = 2
  /\ usage_in.a[1] = JObject([other |-> JString(<<"100">>)])
  /\ usage_in.a[2] = JObject([isValid |-> JNumber(100)])

C16_WitnessEmptyArray == usage_out.some /\ ~usage_out.v.ok /\ usage_in = JArray(<<>>)

C16_WitnessNonObjectElement ==
  usage_out.some /\ ~usage_out.v.ok /\ usage_in = JArray(<<JNumber(100)>>)

C16_WitnessNoRecognizedField ==
  /\ usage_out.some /\ usage_out.v.ok
  /\ usage_in \in {JObject(<<>>), JObject([other |-> JNumber(100)])}

C16_WitnessNullAndTyped ==
  /\ usage_out.some /\ usage_out.v.ok
  /\ usage_in = JObject([total |-> JNull, isValid |-> JBool(TRUE)])

\* the element of the input an error is about: the element at the index it
\* names, or the input itself when it names none
Blamed(v, e) ==
  IF e.index.some
  THEN IF v.t = "array" /\ e.index.v + 1 \in 1..Len(v.a) THEN Some(v.a[e.index.v + 1]) ELSE None
  ELSE Some(v)

\* C17: an error of validate_result that names a field names a recognized
\* field that the blamed element holds with a value that is neither null nor
\* of the declared type; an error for a non-empty array names the index of
\* an element that is not a usage object, and an error for any other input
\* names no index.
C17_ErrorNamesOffender ==
  (usage_out.some /\ ~usage_out.v.ok) =>
     LET e == usage_out.v.e IN
       /\ (usage_in.t = "array" /\ usage_in.a # <<>>) <=> e.index.some
       /\ Blamed(usage_in, e).some
       /\ ~UsageObject(Blamed(usage_in, e).v)
       /\ e.field.some =>
            LET el == Blamed(usage_in, e).v IN
              /\ el.t = "object"
              /\ e.field.v \in DOMAIN el.f \cap DOMAIN DeclaredType
              /\ el.f[e.field.v].t \notin {"null", DeclaredType[e.field.v]}

\* {"total": "100"} fails with an error naming total and no index
C17_Witness ==
  /\ usage_in = JObject([total |-> JString(<<"100">>)])
  /\ usage_out = Some(Err(FieldError("total")))

\* the second element of an array fails: the error names index 1 and used
C17_WitnessIndex ==
  /\ usage_in.t = "array" /\ Len(usage_in.a) = 2
  /\ UsageObject(usage_in.a[1])
  /\ usage_out = Some(Err([index |-> Some(1), field |-> Some("used")]))

\* ------------------------------------------------ the usage script sandbox
PREVIEW_LIMIT == 200

RECURSIVE Replace(_, _, _)
\* str::replace, on a text in which a placeholder is one token
Replace(text, from, to) ==
  IF text = <<>> THEN <<>>
  ELSE (IF Head(text) = from THEN to ELSE <<Head(text)>>) \o Replace(Tail(text), from, to)

\* the first statement: both placeholders are replaced in the script code
Substituted(script_code, api_key, base_url) ==
  Replace(Replace(script_code, "{{apiKey}}", api_key), "{{baseUrl}}", base_url)

\* a response body is a sequence of runs of n characters of w bytes each
Run(w, n) == [w |-> w, n |-> n]

RECURSIVE ByteLen(_)
\* String::len: the length in bytes
ByteLen(text) ==
  IF text = <<>> THEN 0 ELSE Head(text).w * Head(text).n + ByteLen(Tail(text))

RECURSIVE CharLen(_)
\* the length in characters
CharLen(text) == IF text = <<>> THEN 0 ELSE Head(text).n + CharLen(Tail(text))

RECURSIVE ByteSlice(_, _)
\* &text[..end] for end within the text: the characters of the first end
\* bytes, or a panic when byte end falls inside a character
ByteSlice(text, end) ==
  IF end = 0 THEN Ok(<<>>)
  ELSE LET r == Head(text) IN
    IF r.w * r.n <= end
    THEN LET rest == ByteSlice(Tail(text), end - r.w * r.n)
         IN IF rest.ok THEN Ok(<<r>> \o rest.v) ELSE rest
    ELSE IF end % r.w = 0 THEN Ok(<<Run(r.w, end \div r.w)>>)
         ELSE Err("byte index is not a char boundary")

\* the preview of a body: the body, or its first PREVIEW_LIMIT bytes
\* followed by three dots
Preview(text) ==
  IF ByteLen(text) > PREVIEW_LIMIT
  THEN LET cut == ByteSlice(text, PREVIEW_LIMIT)
       IN IF cut.ok THEN Ok([excerpt |-> cut.v, dots |-> TRUE]) ELSE cut
  ELSE Ok([excerpt |-> text, dots |-> FALSE])

\* status.is_success()
IsSuccessStatus(status) == status >= 200 /\ status <= 299

\* a fresh JS runtime beside the ones created before
FreshRuntime == [alive |-> TRUE, evals |-> 0]

\* a second pass that takes the runtime of the first pass again
Runtime_new_shared(rts) ==
  IF rts = <<>> THEN <<FreshRuntime>> ELSE [rts EXCEPT ![Len(rts)].alive = TRUE]

\* Runtime::new and Context::full
Runtime_new(rts) == Append(rts, FreshRuntime)

\* ctx.eval(replaced.clone()) in the newest runtime: the script runs once more there
Eval(rts) == [rts EXCEPT ![Len(rts)].evals = @ + 1]

\* the end of the block: runtime and context are dropped
DropRuntime(rts) == [rts EXCEPT ![Len(rts)].alive = FALSE]

\* the stages of one invocation, in the order of the code
STAGES == <<"substitute", "pass1", "parse_request", "http", "pass2", "validate">>

ScriptCode ==
  <<"({request:{url:\"", "{{baseUrl}}", "/usage\",headers:{key:\"", "{{apiKey}}",
    "\"}},extractor:f})">>

API_KEY == <<"sk-usage">>
BASE_URL == <<"https://api.example">>

\* a script: whether its code evaluates to an object, what its request
\* member is, what its extractor member is, and what the extractor returns
\* (COUNT stands for the number of times the script ran in its runtime)
COUNT == [t |-> "count"]

UsageScript(evaluates, request_kind, extractor_kind, returns) ==
  [code |-> ScriptCode, evaluates |-> evaluates, request |-> request_kind,
   extractor |-> extractor_kind, returns |-> returns]

Scripts ==
  { UsageScript(TRUE, "object", "function", COUNT),
    UsageScript(FALSE, "object", "function", COUNT),
    UsageScript(TRUE, "missing", "function", COUNT),
    UsageScript(TRUE, "no url", "function", COUNT),
    UsageScript(TRUE, "object", "missing", COUNT),
    UsageScript(TRUE, "object", "throws", COUNT),
    UsageScript(TRUE, "object", "function", JObject([total |-> JString(<<"100">>)])),
    UsageScript(TRUE, "object", "function", JArray(<<>>)) }

\* a body of a ASCII characters, k characters of w bytes and b ASCII characters
Body(a, w, k, b) ==
  IF k = 0 THEN (IF a + b = 0 THEN <<>> ELSE <<Run(1, a + b)>>)
  ELSE (IF a = 0 THEN <<>> ELSE <<Run(1, a)>>) \o <<Run(w, k)>> \o
       (IF b = 0 THEN <<>> ELSE <<Run(1, b)>>)

Bodies ==
  { Body(a, w, k, b) : a \in {0, 1, PREVIEW_LIMIT - 1, PREVIEW_LIMIT, PREVIEW_LIMIT + 1},
                       w \in 2..MaxCharBytes, k \in {0, 1, 100}, b \in {0, 1} }

\* the responses of the usage endpoint
Responses == [status : {200, 404}, body : Bodies, json : BOOLEAN]

\* the error string of a stage; the HTTP stage's may carry a body preview
ScriptError(stage, why) == Err([stage |-> stage, why |-> why, preview |-> None])
HttpStatusError(status, preview) ==
  Err([stage |-> "http", why |-> "status", status |-> status, preview |-> Some(preview)])

\* execute_usage_script returns r
Finish(r) == uret' = Some(r) /\ upc' = "done"

InitScript ==
  /\ script \in {Some(sc) : sc \in Scripts}
  /\ upc = "start"
  /\ replaced = <<>>
  /\ runtimes = <<>>
  /\ stages = <<>>
  /\ response = None
  /\ carried = None
  /\ uret = None
  /\ settings = [proxy_retry_count |-> 0, operation_mode |-> "Proxy"]
  /\ RouterIdle
  /\ SortIdle
  /\ ServerIdle
  /\ SwitchIdle
  /\ ValidateIdle
  /\ DetectIdle
  /\ ExtractIdle
  /\ LockIdle

\* 1: the placeholders are replaced
Substitute ==
  /\ upc = "start"
  /\ replaced' = Substituted(script.v.code, API_KEY, BASE_URL)
  /\ stages' = Append(stages, "substitute")
  /\ upc' = "pass1"
  /\ UNCHANGED <<script, runtimes, response, carried, uret>>
  /\ UNCHANGED <<routerVars, sortVars, serverVars, switchVars, validateVars, detectVars, extractVars, lockVars>>

\* what the first block computes inside its runtime
Pass1Value ==
  IF ~script.v.evaluates THEN ScriptError("pass1", "eval")
  ELSE IF script.v.request = "missing" THEN ScriptError("pass1", "request")
  ELSE Ok([request_json |-> script.v.request, url |-> replaced])

\* 2: a runtime is created and the script evaluated in it for its request
Pass1Run ==
  /\ upc = "pass1"
  /\ stages' = Append(stages, "pass1")
  /\ \E created \in BOOLEAN :
       IF created
       THEN /\ runtimes' = Eval(Runtime_new(runtimes))
            /\ carried' = Some(Pass1Value)
            /\ upc' = "pass1_end"
            /\ uret' = uret
       ELSE /\ Finish(ScriptError("pass1", "runtime"))
            /\ UNCHANGED <<runtimes, carried>>
  /\ UNCHANGED <<script, replaced, response>>
  /\ UNCHANGED <<routerVars, sortVars, serverVars, switchVars, validateVars, detectVars, extractVars, lockVars>>

\* the end of a block: its runtime is dropped, and an error of the block is
\* the result of the invocation
BlockEnd(at, then) ==
  /\ upc = at
  /\ runtimes' = DropRuntime(runtimes)
  /\ IF carried.v.ok THEN upc' = then /\ uret' = uret ELSE Finish(carried.v)
  /\ UNCHANGED <<script, replaced, stages, response, carried>>
  /\ UNCHANGED <<routerVars, sortVars, serverVars, switchVars, validateVars, detectVars, extractVars, lockVars>>

Pass1End == BlockEnd("pass1_end", "parse")

\* 3: request_json is deserialized into a RequestConfig
ParseRequest ==
  /\ upc = "parse"
  /\ stages' = Append(stages, "parse_request")
  /\ IF carried.v.v.request_json = "object"
     THEN /\ carried' = Some(Ok([url |-> carried.v.v.url]))
          /\ upc' = "send"
          /\ uret' = uret
     ELSE /\ Finish(ScriptError("parse_request", "format"))
          /\ carried' = carried
  /\ UNCHANGED <<script, replaced, runtimes, response>>
  /\ UNCHANGED <<routerVars, sortVars, serverVars, switchVars, validateVars, detectVars, extractVars, lockVars>>

\* 4: the request is sent; the send ends with a response or a transport error
HttpSend ==
  /\ upc = "send"
  /\ stages' = Append(stages, "http")
  /\ \/ /\ Finish(ScriptError("http", "transport"))
        /\ response' = response
     \/ /\ \E r \in Responses : response' = Some(r)
        /\ upc' = "body"
        /\ uret' = uret
  /\ UNCHANGED <<script, replaced, runtimes, carried>>
  /\ UNCHANGED <<routerVars, sortVars, serverVars, switchVars, validateVars, detectVars, extractVars, lockVars>>

\* the body is read; a status outside 2xx is an error with a preview
HttpBody ==
  /\ upc = "body"
  /\ \E readable \in BOOLEAN :
       IF ~readable
       THEN Finish(ScriptError("http", "body")) /\ carried' = carried
       ELSE IF ~IsSuccessStatus(response.v.status)
       THEN IF Preview(response.v.body).ok
            THEN /\ Finish(HttpStatusError(response.v.status, Preview(response.v.body).v))
                 /\ carried' = carried
            ELSE upc' = "panicked" /\ UNCHANGED <<uret, carried>>
       ELSE /\ carried' = Some(Ok([response_data |-> response.v.body, json |-> response.v.json]))
            /\ upc' = "pass2"
            /\ uret' = uret
  /\ UNCHANGED <<script, replaced, runtimes, stages, response>>
  /\ UNCHANGED <<routerVars, sortVars, serverVars, switchVars, validateVars, detectVars, extractVars, lockVars>>

\* what the second block computes inside the runtime rt
Pass2Value(rt) ==
  IF script.v.extractor = "missing" THEN ScriptError("pass2", "extractor")
  ELSE IF ~carried.v.v.json THEN ScriptError("pass2", "json_parse")
  ELSE IF script.v.extractor = "throws" THEN ScriptError("pass2", "call")
  ELSE IF script.v.returns = COUNT THEN Ok(JObject([used |-> JNumber(rt.evals)]))
  ELSE Ok(script.v.returns)

\* 5: a runtime is created, the script evaluated in it again and its
\* extractor called with the parsed response
Pass2Run ==
  /\ upc = "pass2"
  /\ stages' = Append(stages, "pass2")
  /\ \E created \in BOOLEAN :
       IF created
       THEN /\ runtimes' = Eval(Runtime_new(runtimes))
            /\ carried' = Some(Pass2Value(runtimes'[Len(runtimes')]))
            /\ upc' = "pass2_end"
            /\ uret' = uret
       ELSE /\ Finish(ScriptError("pass2", "runtime"))
            /\ UNCHANGED <<runtimes, carried>>
  /\ UNCHANGED <<script, replaced, response>>
  /\ UNCHANGED <<routerVars, sortVars, serverVars, switchVars, validateVars, detectVars, extractVars, lockVars>>

Pass2End == BlockEnd("pass2_end", "validate")

\* 6: the result is validated and returned
ValidateStage ==
  /\ upc = "validate"
  /\ stages' = Append(stages, "validate")
  /\ IF validate_result(carried.v.v).ok
     THEN Finish(Ok(carried.v.v))
     ELSE Finish(Err([stage |-> "validate", why |-> validate_result(carried.v.v).e,
                      preview |-> None]))
  /\ UNCHANGED <<script, replaced, runtimes, response, carried>>
  /\ UNCHANGED <<routerVars, sortVars, serverVars, switchVars, validateVars, detectVars, extractVars, lockVars>>

NextScript ==
  \/ Substitute
  \/ Pass1Run
  \/ Pass1End
  \/ ParseRequest
  \/ HttpSend
  \/ HttpBody
  \/ Pass2Run
  \/ Pass2End
  \/ ValidateStage

SpecScript == InitScript /\ [][NextScript]_vars

\* ============================================== properties of the sandbox
Ran(stage) == \E i \in 1..Len(stages) : stages[i] = stage

\* C18: the stages run are an initial part of substitute, pass 1, request
\* parsing, HTTP, pass 2, validation, each once; an invocation that returned
\* Ok ran them all and one that returned an error ran none after the stage
\* that failed; at most one runtime is alive, none is alive from the end of
\* pass 1 until pass 2 starts, pass 2 runs in a second runtime, and in every
\* runtime the script has run at most once, so that a script counting its
\* runs returns 1.
C18_StageOrder ==
  /\ Len(stages) <= Len(STAGES)
  /\ \A i \in 1..Len(stages) : stages[i] = STAGES[i]
  /\ uret.some =>
       /\ upc = "done"
       /\ IF uret.v.ok THEN stages = STAGES
          ELSE uret.v.e.stage = stages[Len(stages)]
  /\ Cardinality({i \in 1..Len(runtimes) : runtimes[i].alive}) <= 1
  /\ \A i \in 1..Len(runtimes) : runtimes[i].alive => upc \in {"pass1_end", "pass2_end"}
  /\ upc \in {"parse", "send", "body", "pass2"} =>
       Len(runtimes) = 1 /\ ~runtimes[1].alive
  /\ upc \in {"pass2_end", "validate"} => Len(runtimes) = 2
  /\ \A i \in 1..Len(runtimes) : runtimes[i].evals <= 1
  /\ (uret.some /\ uret.v.ok /\ script.v.returns = COUNT) =>
       uret.v.v = JObject([used |-> JNumber(1)])

\* all stages ran, in two runtimes that are both dropped, and the counting
\* script returned 1
C18_Witness ==
  /\ uret = Some(Ok(JObject([used |-> JNumber(1)])))
  /\ stages = STAGES
  /\ runtimes = <<[alive |-> FALSE, evals |-> 1], [alive |-> FALSE, evals |-> 1]>>

\* the extractor threw: pass 2 was the last stage
C18_WitnessFailure ==
  /\ uret = Some(ScriptError("pass2", "call"))
  /\ stages = SubSeq(STAGES, 1, 5)

\* the response is awaited while the runtime of pass 1 is dropped
C18_WitnessAwait ==
  /\ upc = "body"
  /\ runtimes = <<[alive |-> FALSE, evals |-> 1]>>

\* C19: once the body of a response with a status outside 2xx has been
\* dealt with, the invocation has returned an error of the HTTP stage; when
\* the body was readable the error carries a preview whose excerpt of the
\* body has at most 200 characters and is the whole body when the body has
\* at most 200 characters; a transport error is an error of the HTTP stage;
\* in both cases pass 2 has not run.
C19_PreviewAtMost200 ==
  /\ (response.some /\ ~IsSuccessStatus(response.v.status) /\ upc # "body") =>
        /\ uret.some /\ ~uret.v.ok
        /\ uret.v.e.stage = "http"
        /\ ~Ran("pass2")
        /\ uret.v.e.why = "status" =>
             /\ uret.v.e.preview.some
             /\ CharLen(uret.v.e.preview.v.excerpt) <= PREVIEW_LIMIT
             /\ CharLen(response.v.body) <= PREVIEW_LIMIT =>
                  uret.v.e.preview.v = [excerpt |-> response.v.body, dots |-> FALSE]
  /\ (uret.some /\ ~uret.v.ok /\ uret.v.e.stage = "http") => ~Ran("pass2")

\* ------------------------------------------- the detector on its own
UPPER_SIGNATURE == <<"C", "L", "A", "U", "D", "E">>

\* the signature in every mix of upper and lower case
CaseVariants ==
  { [k \in 1..Len(SIGNATURE) |-> IF up[k] THEN UPPER_SIGNATURE[k] ELSE SIGNATURE[k]] :
      up \in [1..Len(SIGNATURE) -> BOOLEAN] }

\* the signature with one character missing or replaced
NearMisses ==
  { SubSeq(SIGNATURE, 1, k - 1) \o SubSeq(SIGNATURE, k + 1, Len(SIGNATURE)) :
      k \in 1..Len(SIGNATURE) } \cup
  { [SIGNATURE EXCEPT ![k] = " "] : k \in 1..Len(SIGNATURE) } \cup
  { [UPPER_SIGNATURE EXCEPT ![k] = "X"] : k \in 1..Len(SIGNATURE) }

\* the paddings of at most n characters
Pads(n) == UNION { [1..k -> {"c", "E", "/"}] : k \in 0..n }

\* the User-Agent values with at most n characters on each side of the core
UserAgents(n) ==
  {None} \cup
  { Some(pre \o core \o post) :
      pre \in Pads(n), core \in CaseVariants \cup NearMisses \cup {<<>>}, post \in Pads(n) }

InitDetect ==
  /\ ua_in \in UserAgents(MaxPad)
  /\ kind_out = None
  /\ settings = [proxy_retry_count |-> 0, operation_mode |-> "Proxy"]
  /\ RouterIdle
  /\ SortIdle
  /\ ServerIdle
  /\ SwitchIdle
  /\ ValidateIdle
  /\ ScriptIdle
  /\ ExtractIdle
  /\ LockIdle

Detect ==
  /\ kind_out = None
  /\ kind_out' = Some(detect_app_type_from_user_agent(ua_in))
  /\ UNCHANGED <<ua_in, routerVars, sortVars, serverVars, switchVars, validateVars, scriptVars,
               extractVars, lockVars>>

NextDetect == Detect

SpecDetect == InitDetect /\ [][NextDetect]_vars

\* the text holds the six letters c, l, a, u, d, e side by side, each in
\* either case
HoldsSignature(text) ==
  \E i \in 1..Len(text) :
     /\ i + Len(SIGNATURE) - 1 <= Len(text)
     /\ \A k \in 1..Len(SIGNATURE) : text[i + k - 1] \in {SIGNATURE[k], UPPER_SIGNATURE[k]}

\* C20: for every User-Agent, absent or present, the detector returns one of
\* the two kinds: Claude exactly when the value is present and holds
\* "claude" in some mix of letter cases, Codex otherwise.
C20_DetectorTotal ==
  kind_out.some =>
     /\ kind_out.v \in {"Claude", "Codex"}
     /\ kind_out.v = "Claude" <=> (ua_in.some /\ HoldsSignature(ua_in.v))

\* mixed case inside a longer value gives Claude
C20_Witness ==
  /\ ua_in = Some(<<"/", "c", "L", "a", "U", "d", "E", "/">>)
  /\ kind_out = Some("Claude")

C20_WitnessAbsent == ua_in = None /\ kind_out = Some("Codex")

C20_WitnessNearMiss ==
  /\ ua_in = Some(<<"c", "l", "a", "u", "d", "/">>)
  /\ kind_out = Some("Codex")

\* ------------------------------------------- the extractor on its own
\* the pieces of a config.toml text: assignments of base_url that the
\* pattern matches, ones it does not match, and other lines
TomlSegments ==
  { <<"base_url", "=", "\"", "https://u1", "\"">>,
    <<"base_url", " ", "=", "\n", "'", "https://u2", "/", "'">>,
    <<"base_url", "\t", "=", " ", "\"", "https://u3", "'">>,
    <<"base_url", "=", "\"", "\"">>,
    <<"base_url", "=", "\"", "https://u4">>,
    <<"base_url", "=", "https://u5">>,
    <<"base_url", " ", "https://u6", "\"">>,
    <<"base_url">>,
    <<"model = x", "\n">> }

RECURSIVE TomlTexts(_)
\* the texts of at most n pieces
TomlTexts(n) ==
  IF n = 0 THEN {<<>>}
  ELSE TomlTexts(n - 1) \cup {t \o g : t \in TomlTexts(n - 1), g \in TomlSegments}

\* what a settings_config may hold under a key that should be a string
FieldStates(text) == {None, Some(JNumber(1)), Some(JString(text))}

\* a JSON object of the given optional members
ObjectOf(keys, member) ==
  JObject([k \in {x \in keys : member[x].some} |-> member[k].v])

\* the values of settings_config.env and settings_config.auth
ClaudeEnvs ==
  { ObjectOf({"ANTHROPIC_AUTH_TOKEN", "ANTHROPIC_BASE_URL"},
             [ANTHROPIC_AUTH_TOKEN |-> k, ANTHROPIC_BASE_URL |-> u]) :
      k \in FieldStates(KEY_A), u \in FieldStates(URL_B) }

CodexAuths ==
  { ObjectOf({"OPENAI_API_KEY"}, [OPENAI_API_KEY |-> k]) : k \in FieldStates(KEY_B) }

\* the settings_config values handed to the extractor, the config.toml text
\* put together from at most n pieces
ExtractConfigs(n) ==
  { ObjectOf({"env"}, [env |-> e]) :
      e \in {None, Some(JString(<<"x">>))} \cup {Some(o) : o \in ClaudeEnvs} } \cup
  { ObjectOf({"auth", "config"}, [auth |-> a, config |-> c]) :
      a \in {None, Some(JString(<<"x">>))} \cup {Some(o) : o \in CodexAuths},
      c \in {None, Some(JNumber(1))} \cup {Some(JString(t)) : t \in TomlTexts(n)} }

InitExtract ==
  /\ \E sc \in ExtractConfigs(MaxSegments), kind \in {"Claude", "Codex"} :
       cred_in = Some([provider |-> Provider("p", None, None, Some(TRUE), sc),
                       app_type |-> kind])
  /\ cred_out = None
  /\ settings = [proxy_retry_count |-> 0, operation_mode |-> "Proxy"]
  /\ RouterIdle
  /\ SortIdle
  /\ ServerIdle
  /\ SwitchIdle
  /\ ValidateIdle
  /\ ScriptIdle
  /\ DetectIdle
  /\ LockIdle

Extract ==
  /\ cred_out = None
  /\ cred_out' = Some(extract_provider_credentials(cred_in.v.provider, cred_in.v.app_type))
  /\ UNCHANGED <<cred_in, routerVars, sortVars, serverVars, switchVars, validateVars,
                 scriptVars, detectVars, lockVars>>

NextExtract == Extract

SpecExtract == InitExtract /\ [][NextExtract]_vars

\* text[i..j-1] is whitespace only
Blank(text, i, j) == \A k \in i..(j - 1) : text[k] \in WHITESPACE

\* a quoted assignment of base_url starts at token i and its value is
\* text[q+1..c-1]: the name, "=", an opening quote, one or more tokens that
\* are not quotes, and a closing quote, with only whitespace around the "="
Assigns(text, i, q, c) ==
  /\ text[i] = "base_url"
  /\ \E e \in (i + 1)..(q - 1) :
       /\ text[e] = "="
       /\ Blank(text, i + 1, e)
       /\ Blank(text, e + 1, q)
  /\ text[q] \in QUOTES
  /\ c > q + 1
  /\ text[c] \in QUOTES
  /\ \A k \in (q + 1)..(c - 1) : text[k] \notin QUOTES

AssignedAt(text, i) == \E q, c \in 1..Len(text) : Assigns(text, i, q, c)

\* the values of the first quoted assignment of base_url in the text
FirstAssigned(text) ==
  { SubSeq(text, q + 1, c - 1) : <<i, q, c>> \in
      { w \in (1..Len(text)) \X (1..Len(text)) \X (1..Len(text)) :
          /\ Assigns(text, w[1], w[2], w[3])
          /\ \A j \in 1..(w[1] - 1) : ~AssignedAt(text, j) } }

\* member key of object o, when it is a string
StringMember(o, key) ==
  IF key \in DOMAIN o.f /\ o.f[key].t = "string" THEN Some(o.f[key].s) ELSE None

\* member key of settings_config, when it is an object
ObjectMember(sc, key) ==
  IF key \in DOMAIN sc.f /\ sc.f[key].t = "object" THEN Some(sc.f[key]) ELSE None

\* the config text of a Codex provider; none counts as the empty text
ConfigText(sc) == IF StringMember(sc, "config").some THEN StringMember(sc, "config").v ELSE <<>>

When(cond, failure) == IF cond THEN {failure} ELSE {}

\* what the settings_config lacks for the kind, by the failure that tells it
Defects(sc, kind) ==
  IF kind = "Claude" THEN
    LET env == ObjectMember(sc, "env") IN
    When(~env.some, "missing env") \cup
    When(env.some /\ ~StringMember(env.v, "ANTHROPIC_AUTH_TOKEN").some,
         "missing ANTHROPIC_AUTH_TOKEN") \cup
    When(env.some /\ ~StringMember(env.v, "ANTHROPIC_BASE_URL").some,
         "missing ANTHROPIC_BASE_URL")
  ELSE
    LET auth == ObjectMember(sc, "auth")
        text == ConfigText(sc)
        named == \E i \in 1..Len(text) : text[i] = "base_url"
    IN When(~auth.some, "missing auth") \cup
       When(auth.some /\ ~StringMember(auth.v, "OPENAI_API_KEY").some,
            "missing OPENAI_API_KEY") \cup
       When(~named, "config.toml lacks base_url") \cup
       When(named /\ FirstAssigned(text) = {}, "config.toml base_url malformed")

\* ============================================ properties of the extractor
\* C21: the extractor succeeds exactly when the settings_config lacks nothing
\* the kind requires, and then returns the fields' values, for Codex the
\* value of the first quoted base_url assignment of the config text; when it
\* fails, the failure names one of the things lacking, so that a text without
\* the base_url token, a text with the token and no well-formed quoted value,
\* and a missing OPENAI_API_KEY are told apart.
C21_ExtractionOutcome ==
  cred_out.some =>
    LET sc == cred_in.v.provider.settings_config
        kind == cred_in.v.app_type
        out == cred_out.v
    IN /\ out.ok <=> Defects(sc, kind) = {}
       /\ ~out.ok => out.e \in Defects(sc, kind)
       /\ (out.ok /\ kind = "Claude") =>
            /\ Some(out.v.api_key) = StringMember(ObjectMember(sc, "env").v, "ANTHROPIC_AUTH_TOKEN")
            /\ Some(out.v.base_url) = StringMember(ObjectMember(sc, "env").v, "ANTHROPIC_BASE_URL")
       /\ (out.ok /\ kind = "Codex") =>
            /\ Some(out.v.api_key) = StringMember(ObjectMember(sc, "auth").v, "OPENAI_API_KEY")
            /\ FirstAssigned(ConfigText(sc)) = {out.v.base_url}

\* a Codex config text with two assignments gives the value of the first
C21_Witness ==
  /\ cred_in.some /\ cred_in.v.app_type = "Codex"
  /\ ConfigText(cred_in.v.provider.settings_config) =
       <<"base_url", "=", "\"", "https://u1", "\"",
         "base_url", " ", "=", "\n", "'", "https://u2", "/", "'">>
  /\ cred_out = Some(Ok([api_key |-> KEY_B, base_url |-> <<"https://u1">>]))

\* an assignment the pattern does not match, followed by one it matches
C21_WitnessSecond ==
  /\ cred_in.some /\ cred_in.v.app_type = "Codex"
  /\ ConfigText(cred_in.v.provider.settings_config) =
       <<"base_url", "=", "https://u5", "base_url", "=", "\"", "https://u1", "\"">>
  /\ cred_out = Some(Ok([api_key |-> KEY_B, base_url |-> <<"https://u1">>]))

C21_WitnessNoToken ==
  /\ cred_in.some /\ cred_in.v.app_type = "Codex"
  /\ ConfigText(cred_in.v.provider.settings_config) = <<"model = x", "\n">>
  /\ cred_out = Some(Err("config.toml lacks base_url"))

C21_WitnessMalformed ==
  /\ cred_in.some /\ cred_in.v.app_type = "Codex"
  /\ ConfigText(cred_in.v.provider.settings_config) = <<"base_url", "=", "\"", "\"">>
  /\ cred_out = Some(Err("config.toml base_url malformed"))

C21_WitnessNoKey ==
  /\ cred_in.some /\ cred_in.v.app_type = "Codex"
  /\ ConfigText(cred_in.v.provider.settings_config) = <<"base_url", "=", "\"", "https://u1", "\"">>
  /\ cred_out = Some(Err("missing OPENAI_API_KEY"))

C21_WitnessClaude ==
  /\ cred_in.some /\ cred_in.v.app_type = "Claude"
  /\ cred_out = Some(Ok([api_key |-> KEY_A, base_url |-> URL_B]))

\* ------------------------------- the snapshot under the registry lock
\* the registry lock after get_enabled_proxy_providers has returned, with a
\* guard that the handler keeps
GuardAfterReturn_kept == "handler"

\* the MutexGuard `config` is a local of get_enabled_proxy_providers and is
\* dropped when the function returns
GuardAfterReturn == "free"

\* app_state.config.lock() in get_enabled_proxy_providers: the handler has
\* read the inbound body and blocks until the lock is free
LockConfig ==
  /\ pc = "recv"
  /\ mutex = "free"
  /\ mutex' = "handler"
  /\ pc' = "locked"
  /\ UNCHANGED <<config, settings, request, providers, idx, retry, attempts, upstream, result>>
  /\ UNCHANGED <<nmut, sortVars, serverVars, switchVars, validateVars, scriptVars,
                 detectVars, extractVars>>

\* the rest of get_enabled_proxy_providers and the handler up to its first
\* outbound call
Snapshot ==
  /\ pc = "locked"
  /\ TakeSnapshot
  /\ mutex' = GuardAfterReturn
  /\ UNCHANGED <<nmut, sortVars, serverVars, switchVars, validateVars, scriptVars,
                 detectVars, extractVars>>

\* provider a with the credentials of another account
RekeyedA == Provider("a", Some(1), None, Some(TRUE), ClaudeConfig(KEY_B, URL_B))

\* the Claude registries a request may find and a mutation may leave
LockRegistries ==
  { RegistryOf(ClaudePool, <<"a", "b">>),
    <<RekeyedA>> \o RegistryOf(ClaudePool, <<"b">>),
    RegistryOf(ClaudePool, <<"b", "c">>),
    <<>> }

\* another thread takes the registry lock to change the registry
MutateBegin ==
  /\ mutex = "free"
  /\ nmut < MaxMutations
  /\ mutex' = "mutator"
  /\ nmut' = nmut + 1
  /\ UNCHANGED <<routerVars, sortVars, serverVars, switchVars, validateVars, scriptVars,
                 detectVars, extractVars>>

\* it changes the registry and releases the lock
MutateEnd ==
  /\ mutex = "mutator"
  /\ mutex' = "free"
  /\ \E registry \in LockRegistries \ {config.Claude} :
       config' = [config EXCEPT !.Claude = registry]
  /\ UNCHANGED <<settings, request, pc, providers, idx, retry, attempts, upstream, result>>
  /\ UNCHANGED <<nmut, sortVars, serverVars, switchVars, validateVars, scriptVars,
                 detectVars, extractVars>>

InitLock ==
  /\ config \in [Claude : LockRegistries, Codex : {RegistryOf(SwitchCodexPool, <<"x">>)}]
  /\ settings \in [proxy_retry_count : 0..MaxRetry, operation_mode : {"Proxy"}]
  /\ request \in Requests
  /\ pc = "recv"
  /\ providers = <<>>
  /\ idx = 0
  /\ retry = 0
  /\ attempts = <<>>
  /\ upstream = None
  /\ result = None
  /\ mutex = "free"
  /\ nmut = 0
  /\ SortIdle
  /\ ServerIdle
  /\ SwitchIdle
  /\ ValidateIdle
  /\ ScriptIdle
  /\ DetectIdle
  /\ ExtractIdle

NextLock ==
  \/ LockConfig
  \/ Snapshot
  \/ ReadBodyFails
  \/ Respond
  \/ TransportError
  \/ Wake
  \/ Relay
  \/ UpstreamBodyFails
  \/ MutateBegin
  \/ MutateEnd

SpecLock == InitLock /\ [][NextLock]_vars

\* ====================================== properties of the locked snapshot
\* the handler is suspended on network I/O or on the backoff timer
InNetworkIO == pc \in {"await", "sleep", "body"}

\* attempt i is what the snapshot's entry for its provider gives
FromSnapshot(i) ==
  /\ attempts[i].provider \in {providers[k].id : k \in 1..Len(providers)}
  /\ LET creds == extract_provider_credentials(SnapshotProvider(attempts[i].provider), app_type)
     IN /\ creds.ok
        /\ attempts[i].url = TargetUrl(creds.v.base_url, request.path)
        /\ attempts[i].headers["authorization"] = <<(<<"Bearer ">> \o creds.v.api_key)>>

SnapshotPosition(id) == CHOOSE k \in 1..Len(providers) : providers[k].id = id

\* the snapshot positions of the providers tried never go back
InSnapshotOrder ==
  \A i, j \in 1..Len(attempts) :
     i <= j => SnapshotPosition(attempts[i].provider) <= SnapshotPosition(attempts[j].provider)

\* C24: the handler holds the registry lock only between lock() and the
\* return of get_enabled_proxy_providers, never while it waits for an
\* outbound call, a response body or the backoff; once taken, the snapshot
\* does not change, and every attempt goes to a provider of the snapshot, in
\* snapshot order, with the URL and key of the snapshot's entry, whatever
\* the registry holds by then.
C24_LockOnlyForSnapshot ==
  /\ [](mutex = "handler" <=> pc = "locked")
  /\ [](InNetworkIO => mutex # "handler")
  /\ []((\A i \in 1..Len(attempts) : FromSnapshot(i)) /\ InSnapshotOrder)
  /\ [][pc \notin {"recv", "locked"} => providers' = providers]_vars

\* the registry was emptied while the handler waits for its second attempt
C24_Witness ==
  /\ pc = "await"
  /\ Len(attempts) = 2
  /\ nmut = 1 /\ mutex = "free"
  /\ config.Claude = <<>>
  /\ Len(providers) = 2

\* another thread holds the lock while the handler waits for an upstream
C24_WitnessConcurrent == pc = "await" /\ mutex = "mutator"

\* provider a was given other credentials after the snapshot; the response
\* relayed comes from a under the credentials of the snapshot
C24_WitnessRekeyed ==
  /\ Relayed /\ result.v.from = "a"
  /\ providers[1] \in ClaudePool
  /\ config.Claude # <<>> /\ config.Claude[1] = RekeyedA
  /\ attempts[Len(attempts)].url = TargetUrl(URL_A, request.path)

\* the handler waits for the lock while another thread holds it
C24_WitnessBlocked == pc = "recv" /\ mutex = "mutator"

====
